---- MODULE Spec2Model ----
(***************************************************************************)
(* Verification model of claude-rlm: the REPL query loop of ClaudeRLM      *)
(* (src/claude_rlm.py) and QueryOrchestrator                               *)
(* (src/src/claude_rlm/orchestrator/query_loop.py), the subprocess         *)
(* execution of one code block (ClaudeRLM._safe_run) and the threaded      *)
(* sub_query IPC server (src/src/claude_rlm/engine/ipc.py).                *)
(*                                                                         *)
(* Spec     : the query loop over a batch of questions, with the worker    *)
(*            process of each code block run statement by statement.      *)
(* SpecLive : Spec with the fairness of a sequential program.              *)
(* SpecFault: Spec with a failure of _safe_run while it prepares the       *)
(*            execution.                                                   *)
(* SpecIPC  : one IPCServer, its handler threads and its clients.          *)
(* SpecRetry: the retrying API caller (_api_call_with_retry /              *)
(*            AnthropicClient._call_with_retry), Call after Call.          *)
(***************************************************************************)
EXTENDS Integers, Sequences, FiniteSets, TLC

\* ------------------------------------------------------------------ bounds
MaxIterBound == 2       \* max_iterations is drawn from 0..MaxIterBound
MaxBlocks    == 2       \* ```repl blocks in one response
MaxStmts     == 2       \* statements one code block executes
MaxFindings  == 1       \* cap on len(findings)
NumClients   == 2       \* connections made to one IPCServer
MaxSubCalls  == 2       \* config.max_sub_calls is drawn from 1..MaxSubCalls
MaxRetries   == 3       \* config.max_retries is drawn from 1..MaxRetries
MaxCalls     == 2       \* Calls made through one retrying caller
MaxLen       == 5       \* characters in a combined code output
MAX_OUTPUT_CHARS == 3   \* the truncation limit (20_000 in the code), scaled
                        \* to the outputs of at most MaxLen characters
MaxMw        == 3       \* middlewares registered in one MiddlewareChain

\* ------------------------------------------------------------------ inputs
Questions == <<"q1", "q2">>     \* the questions of query_batch, in order
Keys      == {"k1"}             \* keys user code stores in buffers
Kinds     == {"str", "obj"}     \* a Python str, or an object json cannot encode
Clients   == 1..NumClients      \* client connections (sub_query calls of workers)
Requests  == {"r1", "r2"}       \* distinguishable {prompt, context_slice} payloads
MaxRegOps == 4                  \* calls made on one DocumentRegistry
DocIds == {"", "apple", "memo"} \* doc_id: any str, the empty one included
DocTexts == {<<>>, <<"x">>, <<"y", "x">>}   \* text, as its characters
BaseDelays == {1, 3}            \* retry_base_delay, in units of time
\* What one messages.create call does: it returns a response, or raises
\* RateLimitError, another transient APIError (server error, connection
\* error), a non-transient APIError (BadRequestError, AuthenticationError) or
\* an exception that is no APIError.
Outcomes  == {"ok", "rate_limit", "api_transient", "api_fatal", "other"}
\* The two query loops of the repository: the monolith and the orchestrator.
Impls     == {"ClaudeRLM", "QueryOrchestrator"}
Document  == "doc"              \* the text load_text / the caller provides
\* The names user code passes to FINAL_VAR: its variable x, and a name that
\* is bound nowhere.
FinalVarNames == {"x", "nope"}

\* ------------------------------------------------------------------ values
\* A Python value is <<kind, origin>>: origin is the question whose code made
\* it; kind "repr" is the str that str() makes of an "obj".
None    == <<"None">>
NoFailure == <<"none">>
Unset   == <<"unset">>           \* no binding: the name is not in globals()

\* str(x): a str is itself, an object gives its string form (FINAL does
\* str(answer)).
Str(v) ==
    IF v = None THEN <<"repr", "None">>
    ELSE IF v[1] = "obj" THEN <<"repr", v[2]>>
    ELSE v

\* json.dump(..., default=str) followed by json.load: None and str stay,
\* anything json cannot encode comes back as its str() form.
JsonValue(v) == IF v = None THEN None ELSE Str(v)

\* What the state file holds after json.dump(state, f, default=str); json.load
\* gives the same data back.
JsonDump(st) ==
    [buffers  |-> [k \in Keys |-> JsonValue(st.buffers[k])],
     findings |-> [i \in 1..Len(st.findings) |-> JsonValue(st.findings[i])]]

EmptyBuffers == [k \in Keys |-> None]
EmptyState   == [buffers |-> EmptyBuffers, findings |-> <<>>]
NoState      == [buffers |-> EmptyBuffers, findings |-> <<None>>]

VARIABLES
    \* ---- ClaudeRLM / QueryOrchestrator.run
    pc,           \* "start" | "loop" | "exec" | "wait" | "returned" | "done" |
                  \* "raised" (an exception left query)
    qIdx,         \* index in Questions of the question being answered
    maxIter,      \* max_iterations
    iteration,    \* loop iterations performed in this query
    rootCalls,    \* root-model calls made in this query
    resp,         \* the latest root-model response
    blk,          \* index of the code block being executed
    buffers,      \* self.buffers
    findings,     \* self.findings
    trajectory,   \* self.trajectory
    outputs,      \* the parts of the block outputs collected by the batch so far
    batchRes,     \* what _execute_code_blocks returned for the latest response
    lastRes,      \* what the latest _safe_run returned (NoRun while it runs)
    result,       \* what query returned
    prompt,       \* the user message appended to messages since the latest
                  \* root-model call, or None
    impl,         \* "ClaudeRLM" | "QueryOrchestrator": whose query loop runs
    context,      \* the loaded document text
    error,        \* the exception that left query, or None
    msgCount,     \* len(messages)
    preRuns,      \* middleware.run_pre calls made by this run
    postRuns,     \* middleware.run_post calls made by this run
    \* ---- the worker subprocess of _safe_run and its files
    wpc,          \* "none" | "running" | "exited" | "crashed" | "killed"
    wBuffers,     \* the worker's buffers
    wFindings,    \* the worker's findings
    wSteps,       \* statements executed so far
    wOut,         \* stdout is non-empty
    wErr,         \* stderr is non-empty
    stateFile,    \* contents of the state temp file
    termFile,     \* contents of the termination temp file
    ipcUp,        \* the IPC server of this execution is serving
    tmpFiles,     \* temp files of the execution exist
    wLocal,       \* the value of the worker's variable x, or Unset
    \* ---- history
    execsOfResp,  \* code executions since the latest root-model call
    termBlock,    \* index of the block whose execution terminated, or 0
    finalArg,     \* x of the first FINAL(x) call of this execution, or None
    ranAfterFinal,\* a statement ran after FINAL(x) was called
    prevReturned, \* the session state when the previous execution returned
    prevMem,      \* the worker's state when the previous execution completed
    dirtyLost,    \* the latest execution changed its state and ended without
                  \* writing it back
    batchLocal,   \* an earlier block of this response's batch assigned x
    fvExpected,   \* the value the name of the first FINAL_VAR(name) call of
                  \* this execution is bound to, or None
    callbacksRun, \* sub-model calls made by sub-query callbacks in this query
    failedQuery,  \* NoFailure, or <<cause, "clean" | "dirty">>: why the
                  \* previous query raised, with data in the session or not
    \* ---- IPCServer, its handler threads and its clients
    srv,          \* "new" | "serving" | "stopped": the serve_forever thread
    cstate,       \* client: "idle" | "sent" | "received" | "gone"
    req,          \* the request each client sent
    hstate,       \* handler thread: "none" | "started" | "checked" |
                  \* "in_callback" | "done"
    hreq,         \* the request as its handler read it
    wire,         \* the response frame written on each connection
    got,          \* the response each client read
    ret,          \* what the worker-side sub_query returned to each client
    sub_call_count,   \* the session's sub-call counter, kept by the callback
    sub_tokens,       \* the session's sub-model token counters
    max_sub_calls,\* config.max_sub_calls
    invoked,      \* history: calls of sub_query_fn made for each connection
    frames,       \* history: the JSON bodies written on each connection
    busyAtAccept, \* history: a callback was in progress when the connection was accepted
    lateUpdate,   \* history: a session counter changed after stop() returned
    \* ---- _api_call_with_retry / AnthropicClient._call_with_retry
    rpc,          \* "idle" | "loop" | "returned" | "raised"
    max_retries,  \* config.max_retries
    retry_base_delay, \* config.retry_base_delay
    attempt,      \* the loop variable
    last_error,   \* last_error
    retResult,    \* the response returned or the error raised by the Call
    apiCalls,     \* history: messages.create calls made by this Call
    delays,       \* history: the time.sleep arguments of this Call, in order
    outcomes,     \* history: the outcomes of this Call's messages.create calls
    callNo,       \* history: Calls begun so far
    \* ---- the truncation of the code output fed back to the model
    tOut,         \* code_output: the combined output, a sequence of characters
    tFed,         \* the text put in the user message, or NotFed
    \* ---- MiddlewareChain
    chain,        \* self._middlewares: which methods each middleware has
    mwpc,         \* "idle" | "pre" | "ran_pre" | "post" | "ran_post"
    mwIdx,        \* position of the for loop of run_pre / run_post
    mwVal,        \* the (question, context) / result being passed along
    preLog,       \* history: the pre_query calls, with what each received
    postLog,      \* history: the post_query calls, with what each received
    \* ---- IPCServer (engine/ipc.py): start / stop
    port,         \* self._port
    server,       \* self._server: the server object held, or None
    serving,      \* the servers whose serve_forever thread is running
    lastStarted,  \* history: the server the latest start() created, or None
    withDepth,    \* how many `with server:` blocks are open
    lcLog,        \* history: the calls made so far
    lcPrev,       \* history: (port, server, serving) before the latest call
    lcOut,        \* what the latest call returned or raised
    \* ---- result_parser.parse_final_answer
    response,     \* the response text, a sequence of tokens
    parsed,       \* the dict returned, or NotParsed
    \* ---- QueryOrchestrator.run beside QueryOrchestrator.arun
    eqIn,         \* what both are given: max_iterations, save_trajectory and
                  \* the script of model responses and sandbox outcomes
    eqRun,        \* the locals of run(), with the calls it has made so far
    eqArun,       \* the locals of arun(), with the calls it has made so far
    \* ---- _execute_code_blocks / _execute_blocks on its own
    matches,      \* the code blocks of the response: how each one will end
    bIdx,         \* how many of them the for loop has executed
    bOutputs,     \* the list `outputs`
    bRet,         \* what the function returned, or NotReturned
    bLog,         \* history: the blocks executed, in the order of execution
    \* ---- the bookkeeping of the query loop: messages, tokens, trajectory
    lpCfg,        \* which loop runs, max_iterations, config.save_trajectory,
                  \* config.track_costs
    lpQ,          \* how many queries have been started on the object
    lpScript,     \* the responses (with the outcome of their code) that the
                  \* root model has given in this query
    lpRun,        \* the object's counters and the locals of the query, with
                  \* the calls this query has made
    \* DocumentRegistry, looked at on its own
    documents,    \* self._documents: doc_id -> text
    metadata,     \* self._metadata: doc_id -> DocumentMeta
    active_id,    \* self._active_id
    regOut,       \* what the last call on the registry returned or raised
    regLast,      \* history: the most recent load, and whether its id has
                  \* been removed since
    regOps        \* the number of calls made on the registry

queryVars  == <<pc, qIdx, maxIter, iteration, rootCalls, resp, blk, buffers,
                findings, trajectory, outputs, batchRes, lastRes, result,
                prompt, impl, context, error, msgCount, preRuns, postRuns>>
workerVars == <<wpc, wBuffers, wFindings, wSteps, wOut, wErr, stateFile,
                termFile, ipcUp, tmpFiles, wLocal>>
histVars   == <<execsOfResp, termBlock, finalArg, ranAfterFinal, prevReturned,
                prevMem, dirtyLost, batchLocal, fvExpected, callbacksRun,
                failedQuery>>
connVars   == <<invoked, frames>>
ipcVars    == <<srv, cstate, req, hstate, hreq, wire, got, ret, sub_call_count,
                sub_tokens, max_sub_calls, connVars, busyAtAccept, lateUpdate>>
retryVars  == <<rpc, max_retries, retry_base_delay, attempt, last_error,
                retResult, apiCalls, delays, outcomes, callNo>>
lcVars     == <<port, server, serving, lastStarted, withDepth, lcLog, lcPrev,
                lcOut>>
parseVars  == <<response, parsed>>
eqVars     == <<eqIn, eqRun, eqArun>>
batchVars  == <<matches, bIdx, bOutputs, bRet, bLog>>
loopVars   == <<lpCfg, lpQ, lpScript, lpRun>>
regVars    == <<documents, metadata, active_id, regOut, regLast, regOps>>
extVars    == <<lcVars, parseVars, eqVars, batchVars, loopVars, regVars>>
libVars    == <<tOut, tFed, chain, mwpc, mwIdx, mwVal, preLog, postLog,
                extVars>>
vars       == <<queryVars, workerVars, histVars, ipcVars, retryVars, libVars>>

CurQ == Questions[qIdx]

\* ---------------------------------------------------------------- records
NoResp   == [marker |-> FALSE, nBlocks |-> 0, answerText |-> FALSE, forced |-> FALSE]
Responses ==
    {r \in [marker : BOOLEAN, nBlocks : 0..MaxBlocks, answerText : BOOLEAN,
            forced : {FALSE}] : r.answerText => r.marker}

\* The output text of an execution is the set of its parts: "stdout" (what the
\* code printed), "STDERR" (the "STDERR: "-prefixed error text), "timeout"
\* (the "Error: Code timed out" message); the empty text is {}.
NoRun    == [output |-> {}, terminated |-> FALSE, final_answer |-> None, ran |-> FALSE]
NoResult == [answer |-> None, via |-> "none", sub_calls_used |-> 0,
             sub_tokens |-> 0, post |-> FALSE]
\* (mutant) the termination file starts out with a stale termination
NoTermStale == [terminated |-> TRUE, final_answer |-> <<"str", "stale">>]

\* json.dump({"terminated": False}, term_file): the termination file as
\* _safe_run creates it.
NoTerm   == [terminated |-> FALSE, final_answer |-> None]

NoMsg  == <<"none">>
NoReq  == "none"

InitIpc ==
    /\ srv = "new"
    /\ cstate = [c \in Clients |-> "idle"]
    /\ req = [c \in Clients |-> NoReq]
    /\ hstate = [c \in Clients |-> "none"]
    /\ hreq = [c \in Clients |-> NoReq]
    /\ wire = [c \in Clients |-> NoMsg]
    /\ got = [c \in Clients |-> NoMsg]
    /\ ret = [c \in Clients |-> NoMsg]
    /\ sub_call_count = 0 /\ sub_tokens = 0
    /\ max_sub_calls \in 1..MaxSubCalls
    /\ invoked = [c \in Clients |-> 0]
    /\ frames = [c \in Clients |-> <<>>]
    /\ busyAtAccept = [c \in Clients |-> FALSE]
    /\ lateUpdate = FALSE

InitQuery ==
    /\ pc = "start" /\ qIdx = 1
    /\ maxIter \in 0..MaxIterBound
    /\ iteration = 0 /\ rootCalls = 0
    /\ resp = NoResp /\ blk = 0
    /\ buffers = EmptyBuffers /\ findings = <<>> /\ trajectory = <<>>
    /\ outputs = {} /\ batchRes = NoRun /\ lastRes = NoRun /\ result = NoResult
    /\ prompt = None
    /\ impl \in Impls /\ context = Document /\ error = None
    /\ msgCount = 0 /\ preRuns = 0 /\ postRuns = 0
    /\ wLocal = Unset /\ batchLocal = FALSE /\ fvExpected = None
    /\ callbacksRun = 0 /\ failedQuery = NoFailure
    /\ wpc = "none" /\ wBuffers = EmptyBuffers /\ wFindings = <<>>
    /\ wSteps = 0 /\ wOut = FALSE /\ wErr = FALSE
    /\ stateFile = EmptyState /\ termFile = NoTerm
    /\ ipcUp = FALSE /\ tmpFiles = FALSE
    /\ execsOfResp = 0 /\ termBlock = 0
    /\ finalArg = None /\ ranAfterFinal = FALSE
    /\ prevReturned = NoState /\ prevMem = NoState /\ dirtyLost = FALSE

\* Nothing has been formatted.
NotFed == [text |-> <<>>, notice |-> None]

\* No output is being formatted and the chain is empty and at rest.
InitMwIdle ==
    /\ chain = <<>> /\ mwpc = "idle" /\ mwIdx = 0 /\ mwVal = <<>>
    /\ preLog = <<>> /\ postLog = <<>>

\* IPCServer.__init__
InitLifecycle ==
    /\ port = 0 /\ server = None /\ serving = {} /\ lastStarted = None
    /\ withDepth = 0 /\ lcLog = <<>> /\ lcPrev = None /\ lcOut = None

NotParsed == [answer |-> <<"unparsed">>]

InitParseIdle == response = <<>> /\ parsed = NotParsed

\* Neither run() nor arun() has been called.
NotCalled == [at |-> "idle"]
NoScript == [max_iterations |-> 0, save_trajectory |-> FALSE, script |-> <<>>]

InitEqIdle == eqIn = NoScript /\ eqRun = NotCalled /\ eqArun = NotCalled

NotReturned == [returned |-> "nothing"]

InitBatchIdle ==
    /\ matches = <<>> /\ bIdx = 0 /\ bOutputs = <<>> /\ bRet = NotReturned
    /\ bLog = <<>>

\* ClaudeRLM.__init__ / QueryOrchestrator.__init__: no query yet.
NewObject ==
    [at |-> "idle", trajectory |-> <<>>,
     root_input_tokens |-> 0, root_output_tokens |-> 0]

InitLoopIdle ==
    /\ lpCfg = [impl |-> "ClaudeRLM", max_iterations |-> 0,
                save_trajectory |-> TRUE, track_costs |-> TRUE]
    /\ lpQ = 0 /\ lpScript = <<>> /\ lpRun = NewObject

\* DocumentRegistry.__init__, and no call made yet.
NoCall ==
    [op |-> "none", arg |-> "", raised |-> "no", value |-> None,
     before |-> <<>>]
NoLoad == [loaded |-> FALSE, id |-> "", text |-> <<>>, removed |-> FALSE]

InitRegIdle ==
    /\ documents = <<>> /\ metadata = <<>> /\ active_id = None
    /\ regOut = NoCall /\ regLast = NoLoad /\ regOps = 0

InitExt ==
    /\ InitRegIdle
    /\ InitLifecycle
    /\ InitParseIdle
    /\ InitEqIdle
    /\ InitBatchIdle
    /\ InitLoopIdle

InitLib ==
    /\ tOut = <<>> /\ tFed = NotFed
    /\ InitMwIdle
    /\ InitExt

InitRetryVars ==
    /\ rpc = "idle"
    /\ max_retries \in 1..MaxRetries
    /\ retry_base_delay \in BaseDelays
    /\ attempt = 0 /\ last_error = None /\ retResult = None
    /\ apiCalls = 0 /\ delays = <<>> /\ outcomes = <<>> /\ callNo = 0

Init ==
    /\ InitIpc /\ max_sub_calls = MaxSubCalls
    /\ InitRetryVars /\ max_retries = MaxRetries /\ retry_base_delay = 1
    /\ InitQuery /\ impl = "ClaudeRLM"
    /\ InitLib

\* ------------------------------------------------------- ClaudeRLM.query
\* (mutant) reset_state that clears the trajectory but keeps buffers/findings
reset_state_keeps ==
    /\ buffers' = buffers
    /\ findings' = findings
    /\ trajectory' = <<>>
    /\ sub_call_count' = 0 /\ sub_tokens' = 0

\* (mutant) reset_state that forgets to clear the findings
reset_state_keeps_findings ==
    /\ buffers' = EmptyBuffers
    /\ findings' = findings
    /\ trajectory' = <<>>
    /\ sub_call_count' = 0 /\ sub_tokens' = 0

\* reset_state(): a fresh session for the next question.
reset_state ==
    /\ buffers' = EmptyBuffers
    /\ findings' = <<>>
    /\ trajectory' = <<>>
    /\ sub_call_count' = 0 /\ sub_tokens' = 0

\* (mutant) the loop runs one iteration too many
LoopContinuesOffByOne == iteration <= maxIter

\* for iteration in range(max_iterations)
LoopContinues == iteration < maxIter

\* (mutant) the marker only counts when the response has no code to run first
TextTerminatesAfterCode(r) == r.marker /\ r.nBlocks = 0

\* if "FINAL_ANSWER:" in response: tested before any code block is looked at.
TextTerminates(r) == r.marker

\* The sub_call_count / sub-token arguments the loop passes when it builds a
\* result: ClaudeRLM passes its counters; QueryOrchestrator.run passes none,
\* and parse_final_answer / build_result default them to 0.
SubCallsReported  == IF impl = "QueryOrchestrator" THEN 0 ELSE sub_call_count
SubTokensReported == IF impl = "QueryOrchestrator" THEN 0 ELSE sub_tokens

\* (mutant) no fallback to the whole response
parse_final_answer_no_fallback(r, how) ==
    [answer |-> IF r.marker /\ r.answerText THEN <<"str", "field">> ELSE None,
     via |-> how, sub_calls_used |-> SubCallsReported,
     sub_tokens |-> SubTokensReported, post |-> FALSE]

\* _parse_final_answer: the answer is the text after the marker, or the whole
\* response when nothing can be extracted.
parse_final_answer(r, how) ==
    [answer |-> IF r.marker /\ r.answerText THEN <<"str", "field">>
                ELSE <<"str", "response">>,
     via |-> how, sub_calls_used |-> SubCallsReported,
     sub_tokens |-> SubTokensReported, post |-> FALSE]

\* _build_result(code_result["final_answer"], source="FINAL() from code")
build_result(answer) ==
    [answer |-> answer, via |-> "code", sub_calls_used |-> SubCallsReported,
     sub_tokens |-> SubTokensReported, post |-> FALSE]

\* The middleware chain runs once per call of run_pre / run_post in
\* QueryOrchestrator.run; ClaudeRLM.query has no middleware.
ChainRuns == IF impl = "QueryOrchestrator" THEN 1 ELSE 0

\* (mutant) the result is returned without going through the post chain
run_post_skipped(r) == r

\* return self.middleware.run_post(result): the value the caller gets is what
\* the post chain made of the result (field post).
run_post(r) == IF impl = "QueryOrchestrator" THEN [r EXCEPT !.post = TRUE] ELSE r

\* (mutant) an empty output is fed back as code output
FeedbackEchoesEmpty(res) == <<"code_output", res.output>>

\* The user message the loop appends after a response without the marker:
\* the (truncated) code output when there is some, the fixed "No code was
\* executed" text otherwise.
Feedback(res) ==
    IF res.output # {} THEN <<"code_output", res.output>> ELSE <<"no_code">>

\* (mutant) the batch goes on after a terminating block
StopBatchNever(res) == FALSE

\* if result.get("terminated"): return result
StopBatch(res) == res.terminated

\* query / one question of query_batch begins.
BeginQuery ==
    /\ pc = "start"
    /\ reset_state
    /\ iteration' = 0 /\ rootCalls' = 0
    /\ resp' = NoResp /\ blk' = 0 /\ outputs' = {}
    /\ prompt' = <<"question", CurQ>> /\ dirtyLost' = FALSE
    /\ batchRes' = NoRun /\ lastRes' = NoRun /\ result' = NoResult
    /\ execsOfResp' = 0 /\ termBlock' = 0
    /\ prevReturned' = NoState /\ prevMem' = NoState
    /\ finalArg' = None /\ ranAfterFinal' = FALSE
    /\ batchLocal' = FALSE /\ fvExpected' = None /\ callbacksRun' = 0
    /\ error' = None /\ msgCount' = 1
    /\ preRuns' = ChainRuns /\ postRuns' = 0
    /\ pc' = "loop"
    /\ UNCHANGED <<qIdx, maxIter, impl, context, failedQuery, workerVars>>
    /\ UNCHANGED <<srv, cstate, req, hstate, hreq, wire, got, ret,
                   max_sub_calls, connVars, busyAtAccept, lateUpdate, retryVars,
                   libVars>>

\* One loop iteration up to the point where it returns, starts a code
\* execution or goes round again: the root-model call, the trajectory record,
\* the text-marker test and the extraction of the code blocks.
CallRootModel ==
    /\ pc = "loop" /\ LoopContinues
    /\ \E r \in Responses :
         /\ resp' = r
         /\ rootCalls' = rootCalls + 1
         /\ iteration' = iteration + 1
         /\ trajectory' = Append(trajectory, iteration + 1)
         /\ execsOfResp' = 0 /\ termBlock' = 0
         /\ batchRes' = NoRun /\ lastRes' = NoRun /\ outputs' = {}
         /\ IF TextTerminates(r)
               THEN /\ result' = run_post(parse_final_answer(r, "marker"))
                    /\ postRuns' = postRuns + ChainRuns
                    /\ pc' = "returned" /\ blk' = 0 /\ prompt' = None
                    /\ UNCHANGED msgCount
               ELSE IF r.nBlocks = 0
               THEN /\ pc' = "loop" /\ blk' = 0 /\ UNCHANGED <<result, postRuns>>
                    /\ prompt' = Feedback(NoRun)
                    /\ msgCount' = msgCount + 2
               ELSE /\ pc' = "exec" /\ blk' = 1 /\ UNCHANGED <<result, postRuns>>
                    /\ prompt' = None
                    /\ UNCHANGED msgCount
    /\ finalArg' = None /\ ranAfterFinal' = FALSE /\ dirtyLost' = FALSE
    /\ batchLocal' = FALSE /\ fvExpected' = None
    /\ UNCHANGED <<qIdx, maxIter, buffers, findings, workerVars, prevReturned,
                   prevMem, impl, context, error, preRuns, callbacksRun,
                   failedQuery>>
    /\ UNCHANGED <<ipcVars, retryVars, libVars>>

\* The iteration limit is reached: one forced call, parsed as it comes.
ForcedFinalCall ==
    /\ pc = "loop" /\ ~LoopContinues
    /\ \E r \in Responses :
         /\ resp' = [r EXCEPT !.forced = TRUE]
         /\ rootCalls' = rootCalls + 1
         /\ result' = run_post(parse_final_answer(r, "forced"))
    /\ postRuns' = postRuns + ChainRuns
    /\ msgCount' = msgCount + 1
    /\ execsOfResp' = 0 /\ termBlock' = 0
    /\ batchRes' = NoRun /\ lastRes' = NoRun
    /\ pc' = "returned" /\ prompt' = None
    /\ finalArg' = None /\ ranAfterFinal' = FALSE /\ dirtyLost' = FALSE
    /\ batchLocal' = FALSE /\ fvExpected' = None
    /\ UNCHANGED <<qIdx, maxIter, iteration, blk, buffers, findings, trajectory,
                   outputs, workerVars, prevReturned, prevMem, impl, context,
                   error, preRuns, callbacksRun, failedQuery>>
    /\ UNCHANGED <<ipcVars, retryVars, libVars>>

\* query returns; query_batch goes on to the next question.
EndQuery ==
    /\ pc = "returned"
    /\ IF qIdx < Len(Questions)
          THEN qIdx' = qIdx + 1 /\ pc' = "start"
          ELSE qIdx' = qIdx /\ pc' = "done"
    /\ UNCHANGED <<maxIter, iteration, rootCalls, resp, blk, buffers, findings,
                   trajectory, outputs, batchRes, lastRes, result, prompt,
                   impl, context, error, msgCount, preRuns, postRuns,
                   workerVars, histVars>>
    /\ UNCHANGED <<ipcVars, retryVars, libVars>>

\* ----------------------------------------------------- ClaudeRLM._safe_run
\* _safe_run up to subprocess.run: the IPC server is started, the state is
\* dumped to its temp file, the worker starts and loads it.
SafeRunStart ==
    /\ pc = "exec"
    /\ ipcUp' = TRUE /\ tmpFiles' = TRUE
    /\ stateFile' = JsonDump([buffers |-> buffers, findings |-> findings])
    /\ termFile' = NoTerm
    /\ wpc' = "running"
    /\ wBuffers' = stateFile'.buffers /\ wFindings' = stateFile'.findings
    /\ wSteps' = 0 /\ wOut' = FALSE /\ wErr' = FALSE
    /\ finalArg' = None /\ ranAfterFinal' = FALSE
    /\ prevMem' = NoState /\ dirtyLost' = FALSE
    /\ lastRes' = NoRun
    /\ wLocal' = Unset /\ fvExpected' = None
    /\ execsOfResp' = execsOfResp + 1
    /\ pc' = "wait"
    /\ UNCHANGED <<qIdx, maxIter, iteration, rootCalls, resp, blk, buffers,
                   findings, trajectory, outputs, batchRes, result, prompt,
                   impl, context, error, msgCount, preRuns, postRuns,
                   termBlock, prevReturned, batchLocal, callbacksRun,
                   failedQuery>>
    /\ UNCHANGED <<ipcVars, retryVars, libVars>>

\* A statement of user code runs in the worker.
Stmt ==
    /\ pc = "wait" /\ wpc = "running" /\ wSteps < MaxStmts
    /\ wSteps' = wSteps + 1
    /\ ranAfterFinal' = (ranAfterFinal \/ finalArg # None)

\* What no statement of user code changes.
CodeFrame ==
    UNCHANGED <<queryVars, ipcUp, tmpFiles, execsOfResp, termBlock,
                prevReturned, prevMem, dirtyLost, batchLocal, failedQuery,
                srv, cstate, req, hstate, hreq, wire, got, ret, max_sub_calls,
                connVars,
                busyAtAccept, lateUpdate, retryVars, libVars>>

WorkerFrame ==
    /\ CodeFrame
    /\ UNCHANGED <<wLocal, fvExpected, callbacksRun, sub_call_count, sub_tokens>>

\* buffers[k] = <value>
WSet ==
    /\ Stmt
    /\ \E k \in Keys, kind \in Kinds :
         wBuffers' = [wBuffers EXCEPT ![k] = <<kind, CurQ>>]
    /\ UNCHANGED <<wpc, wFindings, wOut, wErr, stateFile, termFile, finalArg>>
    /\ WorkerFrame

\* findings.append("<text>")
WAppend ==
    /\ Stmt /\ Len(wFindings) < MaxFindings
    /\ wFindings' = Append(wFindings, <<"str", CurQ>>)
    /\ UNCHANGED <<wpc, wBuffers, wOut, wErr, stateFile, termFile, finalArg>>
    /\ WorkerFrame

\* print(...)
WPrint ==
    /\ Stmt
    /\ wOut' = TRUE
    /\ UNCHANGED <<wpc, wBuffers, wFindings, wErr, stateFile, termFile, finalArg>>
    /\ WorkerFrame

\* The wrapper's tail: the state is dumped back to the state file.
WriteState == JsonDump([buffers |-> wBuffers, findings |-> wFindings])

\* FINAL(x) at the top level of the block: _RLMTermination reaches the
\* wrapper's except clause, which writes the termination file; the state is
\* then written and the worker exits.
WFinal ==
    /\ pc = "wait" /\ wpc = "running" /\ wSteps < MaxStmts
    /\ \E kind \in Kinds :
         /\ finalArg' = IF finalArg = None THEN <<kind, CurQ>> ELSE finalArg
         /\ termFile' = [terminated |-> TRUE, final_answer |-> Str(<<kind, CurQ>>)]
    /\ ranAfterFinal' = (ranAfterFinal \/ finalArg # None)
    /\ wSteps' = wSteps + 1
    /\ stateFile' = WriteState
    /\ wpc' = "exited"
    /\ UNCHANGED <<wBuffers, wFindings, wOut, wErr>>
    /\ WorkerFrame

\* FINAL(x) inside a try/except Exception of the user code: _RLMTermination
\* is an Exception, the user's handler catches it and the code goes on. The
\* answer is dropped with the exception: a str stands for any argument.
WFinalCaught ==
    /\ pc = "wait" /\ wpc = "running" /\ wSteps < MaxStmts
    /\ finalArg' = IF finalArg = None THEN <<"str", CurQ>> ELSE finalArg
    /\ ranAfterFinal' = (ranAfterFinal \/ finalArg # None)
    /\ wSteps' = wSteps + 1
    /\ UNCHANGED <<wpc, wBuffers, wFindings, wOut, wErr, stateFile, termFile>>
    /\ WorkerFrame

\* Any other exception: nothing catches it, the traceback goes to stderr and
\* the worker exits before the state is written back.
WRaise ==
    /\ Stmt
    /\ wErr' = TRUE
    /\ wpc' = "crashed"
    /\ UNCHANGED <<wBuffers, wFindings, wOut, stateFile, termFile, finalArg>>
    /\ WorkerFrame

\* The end of the block is reached: the state is written back.
WEnd ==
    /\ pc = "wait" /\ wpc = "running"
    /\ stateFile' = WriteState
    /\ wpc' = "exited"
    /\ UNCHANGED <<wBuffers, wFindings, wSteps, wOut, wErr, termFile, finalArg,
                   ranAfterFinal>>
    /\ WorkerFrame

\* subprocess.run(timeout=code_timeout) expires: the worker is killed.
WTimeout ==
    /\ pc = "wait" /\ wpc = "running"
    /\ wpc' = "killed"
    /\ UNCHANGED <<wBuffers, wFindings, wSteps, wOut, wErr, stateFile, termFile,
                   finalArg, ranAfterFinal>>
    /\ WorkerFrame

\* x = <value>: a variable of the user code, a global of the worker process.
WDefine ==
    /\ Stmt
    /\ \E v \in {None, <<"str", CurQ>>} : wLocal' = v
    /\ UNCHANGED <<wpc, wBuffers, wFindings, wOut, wErr, stateFile, termFile,
                   finalArg, fvExpected, callbacksRun, sub_call_count,
                   sub_tokens>>
    /\ CodeFrame

\* print(x): a NameError when this process has no binding for x; nothing
\* catches it, as in WRaise.
WUse ==
    /\ Stmt
    /\ IF wLocal = Unset
          THEN wErr' = TRUE /\ wpc' = "crashed" /\ UNCHANGED wOut
          ELSE wOut' = TRUE /\ UNCHANGED <<wErr, wpc>>
    /\ UNCHANGED <<wBuffers, wFindings, stateFile, termFile, finalArg, wLocal,
                   fvExpected, callbacksRun, sub_call_count, sub_tokens>>
    /\ CodeFrame

\* FINAL_VAR's lookup: _locals.get(var_name) over the worker's globals, then
\* getattr(__main__, var_name); a name without binding gives None.
Lookup(name) == IF name = "x" /\ wLocal # Unset THEN wLocal ELSE None

\* f"ERROR: Variable {var_name!r} not found"
NotFound(name) == <<"not_found", name>>

\* The argument of the _RLMTermination that FINAL_VAR raises:
\* if val is None: the not-found message, else str(val).
FinalVarAnswer(name) ==
    IF Lookup(name) = None THEN NotFound(name) ELSE Str(Lookup(name))

\* What FINAL_VAR(name) is to give: the string form of the value the name is
\* bound to, the not-found message for a name that is not bound.
FinalVarBound(name) ==
    IF name = "x" /\ wLocal # Unset THEN Str(wLocal) ELSE NotFound(name)

\* FINAL_VAR(name) at the top level of the block: the wrapper's except clause
\* writes the termination file, the state is written and the worker exits.
WFinalVar ==
    /\ Stmt
    /\ \E name \in FinalVarNames :
         /\ fvExpected' = IF fvExpected = None THEN FinalVarBound(name)
                                               ELSE fvExpected
         /\ termFile' = [terminated |-> TRUE, final_answer |-> FinalVarAnswer(name)]
    /\ stateFile' = WriteState
    /\ wpc' = "exited"
    /\ UNCHANGED <<wBuffers, wFindings, wOut, wErr, finalArg, wLocal,
                   callbacksRun, sub_call_count, sub_tokens>>
    /\ CodeFrame

\* FINAL_VAR(name) inside a try/except Exception of the user code: the
\* user's handler catches _RLMTermination and the code goes on.
WFinalVarCaught ==
    /\ Stmt
    /\ \E name \in FinalVarNames :
         fvExpected' = IF fvExpected = None THEN FinalVarBound(name)
                                            ELSE fvExpected
    /\ UNCHANGED <<wpc, wBuffers, wFindings, wOut, wErr, stateFile, termFile,
                   finalArg, wLocal, callbacksRun, sub_call_count, sub_tokens>>
    /\ CodeFrame

\* sub_query(...) in user code: the request goes to the IPC server of the
\* execution and the callback runs while the worker waits for the reply.
\* ClaudeRLM.sub_query keeps the session counters and refuses a call over the
\* budget; the callback given to QueryOrchestrator is the caller's function,
\* the loop keeps no counter of its own.
WSubQuery ==
    /\ Stmt
    /\ IF impl = "ClaudeRLM"
          THEN IF sub_call_count >= max_sub_calls
                  THEN UNCHANGED <<sub_call_count, sub_tokens, callbacksRun>>
                  ELSE /\ sub_call_count' = sub_call_count + 1
                       /\ sub_tokens' = sub_tokens + 1
                       /\ callbacksRun' = callbacksRun + 1
          ELSE /\ callbacksRun' = callbacksRun + 1
               /\ UNCHANGED <<sub_call_count, sub_tokens>>
    /\ UNCHANGED <<wpc, wBuffers, wFindings, wOut, wErr, stateFile, termFile,
                   finalArg, wLocal, fvExpected>>
    /\ CodeFrame

\* "\n".join(output_parts): result.stdout if non-empty, then
\* f"STDERR: {result.stderr}" if stderr is non-empty.
OutputParts ==
    (IF wOut THEN {"stdout"} ELSE {}) \cup (IF wErr THEN {"STDERR"} ELSE {})

\* (mutant) stderr is dropped from the output
RunResultNoStderr ==
    IF wpc = "killed"
       THEN [output |-> {"timeout"}, terminated |-> FALSE, final_answer |-> None,
             ran |-> TRUE]
    ELSE IF termFile.terminated
       THEN [output |-> OutputParts \ {"STDERR"}, terminated |-> TRUE,
             final_answer |-> termFile.final_answer, ran |-> TRUE]
    ELSE [output |-> OutputParts \ {"STDERR"}, terminated |-> FALSE,
          final_answer |-> None, ran |-> TRUE]

\* (mutant) a timeout gives an empty output
RunResultTimeoutSilent ==
    IF wpc = "killed"
       THEN [output |-> {}, terminated |-> FALSE, final_answer |-> None,
             ran |-> TRUE]
    ELSE IF termFile.terminated
       THEN [output |-> OutputParts, terminated |-> TRUE,
             final_answer |-> termFile.final_answer, ran |-> TRUE]
    ELSE [output |-> OutputParts, terminated |-> FALSE, final_answer |-> None,
          ran |-> TRUE]

\* The dict _safe_run returns.
RunResult ==
    IF wpc = "killed"
       THEN [output |-> {"timeout"}, terminated |-> FALSE, final_answer |-> None,
             ran |-> TRUE]
    ELSE IF termFile.terminated
       THEN [output |-> OutputParts, terminated |-> TRUE,
             final_answer |-> termFile.final_answer, ran |-> TRUE]
    ELSE [output |-> OutputParts, terminated |-> FALSE, final_answer |-> None,
          ran |-> TRUE]

\* (mutant) the session takes the worker's state however the worker ended
ReadBackWorkerMemory == JsonDump([buffers |-> wBuffers, findings |-> wFindings])

\* (mutant) the updated state is never read back
ReadBackNever == [buffers |-> buffers, findings |-> findings]

\* The state read back from the state file (not on the timeout path).
ReadBack ==
    IF wpc = "killed" THEN [buffers |-> buffers, findings |-> findings]
    ELSE stateFile

\* (mutant) the worker is started without being waited for
ExecutionDoneNoWait == wpc # "none"

\* subprocess.run returns or raises TimeoutExpired: the worker has exited or
\* has been killed.
ExecutionDone == wpc \in {"exited", "crashed", "killed"}

\* _safe_run from the return of subprocess.run, then _execute_code_blocks and
\* the loop body of query up to the next execution, root-model call or return.
SafeRunFinish ==
    /\ pc = "wait" /\ ExecutionDone
    /\ buffers' = ReadBack.buffers /\ findings' = ReadBack.findings
    /\ lastRes' = RunResult
    /\ ipcUp' = FALSE /\ tmpFiles' = FALSE
    /\ wpc' = "none" /\ wBuffers' = EmptyBuffers /\ wFindings' = <<>>
    /\ wSteps' = 0 /\ wOut' = FALSE /\ wErr' = FALSE
    /\ stateFile' = EmptyState /\ termFile' = NoTerm
    /\ prevReturned' = [buffers |-> buffers', findings |-> findings']
    /\ prevMem' = IF wpc = "exited"
                     THEN [buffers |-> wBuffers, findings |-> wFindings]
                     ELSE NoState
    /\ termBlock' = IF RunResult.terminated /\ termBlock = 0 THEN blk ELSE termBlock
    /\ dirtyLost' = (wpc # "exited" /\
                       JsonDump([buffers |-> wBuffers, findings |-> wFindings])
                           # [buffers |-> buffers, findings |-> findings])
    /\ wLocal' = Unset
    /\ batchLocal' = (batchLocal \/ wLocal # Unset)
    /\ IF StopBatch(RunResult)
          THEN /\ batchRes' = RunResult
               /\ result' = run_post(build_result(RunResult.final_answer))
               /\ postRuns' = postRuns + ChainRuns
               /\ pc' = "returned" /\ prompt' = None
               /\ UNCHANGED <<blk, outputs, msgCount>>
          ELSE /\ outputs' = outputs \cup RunResult.output
               /\ UNCHANGED <<result, postRuns>>
               /\ IF blk < resp.nBlocks
                     THEN /\ blk' = blk + 1 /\ pc' = "exec"
                          /\ UNCHANGED <<batchRes, prompt, msgCount>>
                     ELSE /\ batchRes' = [output |-> outputs', terminated |-> FALSE,
                                          final_answer |-> None, ran |-> TRUE]
                          /\ prompt' = Feedback(batchRes')
                          /\ msgCount' = msgCount + 2
                          /\ pc' = "loop" /\ UNCHANGED blk
    /\ UNCHANGED <<qIdx, maxIter, iteration, rootCalls, resp, trajectory,
                   impl, context, error, preRuns,
                   execsOfResp, finalArg, ranAfterFinal, fvExpected,
                   callbacksRun, failedQuery>>
    /\ UNCHANGED <<ipcVars, retryVars, libVars>>

Next ==
    \/ BeginQuery
    \/ CallRootModel
    \/ ForcedFinalCall
    \/ EndQuery
    \/ SafeRunStart
    \/ WSet
    \/ WAppend
    \/ WPrint
    \/ WFinal
    \/ WFinalCaught
    \/ WRaise
    \/ WEnd
    \/ WTimeout
    \/ SafeRunFinish


Spec == Init /\ [][Next]_vars

\* The query loop of either implementation, with user code that also assigns
\* and reads a variable, calls FINAL_VAR and calls sub_query.
InitCode ==
    /\ InitIpc /\ max_sub_calls = MaxSubCalls
    /\ InitRetryVars /\ max_retries = MaxRetries /\ retry_base_delay = 1
    /\ InitQuery
    /\ InitLib

NextCode ==
    \/ Next
    \/ WDefine
    \/ WUse
    \/ WFinalVar
    \/ WFinalVarCaught
    \/ WSubQuery

SpecCode == InitCode /\ [][NextCode]_vars

\* QueryOrchestrator.run / run_batch: the same loop, with the middleware
\* chain around it and results built by result_parser.
InitOrch ==
    /\ InitIpc /\ max_sub_calls = MaxSubCalls
    /\ InitRetryVars /\ max_retries = MaxRetries /\ retry_base_delay = 1
    /\ InitQuery /\ impl = "QueryOrchestrator"
    /\ InitLib

SpecOrch == InitOrch /\ [][Next]_vars

\* ClaudeRLM.query with user code that also calls FINAL_VAR.
NextFinalVar ==
    \/ Next
    \/ WFinalVar
    \/ WFinalVarCaught

SpecFinalVar == Init /\ [][NextFinalVar]_vars

\* _safe_run fails while it prepares the execution: the IPC server is
\* started, the context temp file is created, and writing it raises (the
\* document text cannot be encoded). This is before the try statement whose
\* finally clause does the cleanup; the exception leaves _safe_run and query.
SafeRunPrepareFails ==
    /\ pc = "exec"
    /\ ipcUp' = TRUE /\ tmpFiles' = TRUE
    /\ pc' = "raised" /\ error' = <<"UnicodeEncodeError">>
    /\ UNCHANGED <<qIdx, maxIter, iteration, rootCalls, resp, blk, buffers,
                   findings, trajectory, outputs, batchRes, lastRes, result,
                   prompt, impl, context, msgCount, preRuns, postRuns,
                   wpc, wBuffers, wFindings, wSteps, wOut, wErr,
                   stateFile, termFile, wLocal, histVars>>
    /\ UNCHANGED <<ipcVars, retryVars, libVars>>

\* _call_root_model raises (the retries are used up, or the error is one that
\* is not retried): query has no try statement around the call, the exception
\* leaves it. On the forced final call the user message has been appended.
RootCallRaises ==
    /\ pc = "loop"
    /\ \E o \in Outcomes \ {"ok"} : error' = <<"error", o>>
    /\ msgCount' = IF LoopContinues THEN msgCount ELSE msgCount + 1
    /\ pc' = "raised"
    /\ UNCHANGED <<qIdx, maxIter, iteration, rootCalls, resp, blk, buffers,
                   findings, trajectory, outputs, batchRes, lastRes, result,
                   prompt, impl, context, preRuns, postRuns, workerVars,
                   histVars>>
    /\ UNCHANGED <<ipcVars, retryVars, libVars>>

\* The caller, holding the exception, asks the next question on the same
\* object.
QueryAgain ==
    /\ pc = "raised" /\ failedQuery = NoFailure /\ qIdx < Len(Questions)
    /\ qIdx' = qIdx + 1
    /\ pc' = "start"
    /\ failedQuery' = <<IF error[1] = "error" THEN "root_call" ELSE "prepare",
                         IF buffers # EmptyBuffers \/ findings # <<>>
                            \/ trajectory # <<>>
                            THEN "dirty" ELSE "clean">>
    /\ UNCHANGED <<maxIter, iteration, rootCalls, resp, blk, buffers, findings,
                   trajectory, outputs, batchRes, lastRes, result, prompt,
                   impl, context, error, msgCount, preRuns, postRuns,
                   workerVars, execsOfResp, termBlock, finalArg, ranAfterFinal,
                   prevReturned, prevMem, dirtyLost, batchLocal, fvExpected,
                   callbacksRun>>
    /\ UNCHANGED <<ipcVars, retryVars, libVars>>

NextFault ==
    \/ Next
    \/ SafeRunPrepareFails
    \/ RootCallRaises
    \/ QueryAgain

SpecFault == Init /\ [][NextFault]_vars

\* ------------------------------------------------------------- IPCServer
\* (mutant) a plain TCPServer: the serve loop runs each handler itself
HandlersBlockingAcceptSync ==
    {c \in Clients : hstate[c] \in {"started", "checked", "in_callback"}}

\* The handlers the serve_forever loop waits for before it accepts again:
\* none, ThreadingTCPServer hands every request to a thread of its own.
HandlersBlockingAccept == {}

\* (mutant) the handler reads the request of whichever connection is open
RequestReadAny(c) == req[CHOOSE d \in Clients : cstate[d] # "idle"]

\* rfile.read(4), rfile.read(msg_len), json.loads: the request on the
\* handler's own connection.
RequestRead(c) == req[c]

\* The query loop does not move while the server is looked at on its own.
QueryIdle == UNCHANGED <<queryVars, workerVars, histVars, retryVars, libVars>>

\* The value sub_query_fn(prompt, context_slice) returns.
Answer(r) == <<"answer", r>>

\* str(e) of the error sub_query_fn raises.
ErrorOf(r) == <<"failure", r>>

\* start(): the server is bound and serve_forever runs in its thread.
IpcStart ==
    /\ srv = "new"
    /\ srv' = "serving"
    /\ UNCHANGED <<cstate, req, hstate, hreq, wire, got, ret, sub_call_count,
                   sub_tokens, max_sub_calls, connVars, busyAtAccept, lateUpdate>>
    /\ QueryIdle

\* The worker-side sub_query: connect, send the length-prefixed request.
\* Workers run while the server of their execution serves.
ClientSend(c) ==
    /\ srv = "serving" /\ cstate[c] = "idle"
    /\ \E r \in Requests : req' = [req EXCEPT ![c] = r]
    /\ cstate' = [cstate EXCEPT ![c] = "sent"]
    /\ UNCHANGED <<srv, hstate, hreq, wire, got, ret, sub_call_count, sub_tokens,
                   max_sub_calls, connVars, busyAtAccept, lateUpdate>>
    /\ QueryIdle

\* serve_forever accepts a connection; process_request starts its thread.
Accept(c) ==
    /\ srv = "serving" /\ cstate[c] # "idle" /\ hstate[c] = "none"
    /\ HandlersBlockingAccept = {}
    /\ hstate' = [hstate EXCEPT ![c] = "started"]
    /\ busyAtAccept' = [busyAtAccept EXCEPT
                           ![c] = \E d \in Clients : hstate[d] = "in_callback"]
    /\ UNCHANGED <<srv, cstate, req, hreq, wire, got, ret, sub_call_count,
                   sub_tokens, max_sub_calls, connVars, lateUpdate>>
    /\ QueryIdle

\* The string sub_query returns when the budget is used up.
BudgetError == <<"budget_error">>

\* json.dumps({"result": response_text}) / json.dumps({"error": str(e)}):
\* the body of a response frame.
ResultFrame(v) == [result |-> v]
ErrorFrame(m) == [error |-> m]

\* handle(): the request is read and sub_query_fn is entered. sub_query
\* compares the counter with the budget: when it is used up the error string
\* is returned, and handle() writes it as the result, with no API call.
HandlerInvoke(c) ==
    /\ hstate[c] = "started" /\ req[c] \in Requests
    /\ hreq' = [hreq EXCEPT ![c] = RequestRead(c)]
    /\ invoked' = [invoked EXCEPT ![c] = @ + 1]
    /\ IF sub_call_count >= max_sub_calls
          THEN /\ wire' = [wire EXCEPT ![c] = <<"result", BudgetError>>]
               /\ frames' = [frames EXCEPT ![c] = Append(@, ResultFrame(BudgetError))]
               /\ hstate' = [hstate EXCEPT ![c] = "done"]
          ELSE /\ hstate' = [hstate EXCEPT ![c] = "checked"]
               /\ UNCHANGED <<wire, frames>>
    /\ UNCHANGED <<srv, cstate, req, got, ret, sub_call_count, sub_tokens,
                   max_sub_calls, busyAtAccept, lateUpdate>>
    /\ QueryIdle

\* self.sub_call_count += 1, a statement of its own after the comparison;
\* the API call follows.
SubQueryCount(c) ==
    /\ hstate[c] = "checked"
    /\ hstate' = [hstate EXCEPT ![c] = "in_callback"]
    /\ sub_call_count' = sub_call_count + 1
    /\ lateUpdate' = (lateUpdate \/ srv = "stopped")
    /\ UNCHANGED <<srv, cstate, req, hreq, wire, got, ret, sub_tokens,
                   max_sub_calls, connVars, busyAtAccept>>
    /\ QueryIdle

\* sub_query_fn returns: the callback adds the token usage, handle() writes
\* {"result": ...} on its connection.
CallbackReturn(c) ==
    /\ hstate[c] = "in_callback"
    /\ sub_tokens' = sub_tokens + 1
    /\ lateUpdate' = (lateUpdate \/ srv = "stopped")
    /\ wire' = [wire EXCEPT ![c] = <<"result", Answer(hreq[c])>>]
    /\ frames' = [frames EXCEPT ![c] = Append(@, ResultFrame(Answer(hreq[c])))]
    /\ hstate' = [hstate EXCEPT ![c] = "done"]
    /\ UNCHANGED <<srv, cstate, req, hreq, got, ret, sub_call_count,
                   max_sub_calls, invoked, busyAtAccept>>
    /\ QueryIdle

\* sub_query_fn raises: handle() writes {"error": str(e)}.
CallbackRaise(c) ==
    /\ hstate[c] = "in_callback"
    /\ wire' = [wire EXCEPT ![c] = <<"error", ErrorOf(hreq[c])>>]
    /\ frames' = [frames EXCEPT ![c] = Append(@, ErrorFrame(ErrorOf(hreq[c])))]
    /\ hstate' = [hstate EXCEPT ![c] = "done"]
    /\ UNCHANGED <<srv, cstate, req, hreq, got, ret, sub_call_count, sub_tokens,
                   max_sub_calls, invoked, busyAtAccept, lateUpdate>>
    /\ QueryIdle

\* (mutant) the worker-side sub_query raises on an error frame
SubQueryReturnRaises(frame) ==
    IF frame[1] = "error" THEN <<"raise", frame[2]>> ELSE frame[2]

\* The tail of the worker-side sub_query: an {"error": m} frame gives the
\* string f"ERROR: {m}", a {"result": v} frame gives v.
SubQueryReturn(frame) ==
    IF frame[1] = "error" THEN <<"ERROR: ", frame[2]>> ELSE frame[2]

\* The client reads the response frame of its connection; sub_query returns.
ClientRecv(c) ==
    /\ cstate[c] = "sent" /\ wire[c] # NoMsg
    /\ got' = [got EXCEPT ![c] = wire[c]]
    /\ ret' = [ret EXCEPT ![c] = SubQueryReturn(wire[c])]
    /\ cstate' = [cstate EXCEPT ![c] = "received"]
    /\ UNCHANGED <<srv, req, hstate, hreq, wire, sub_call_count, sub_tokens,
                   max_sub_calls, connVars, busyAtAccept, lateUpdate>>
    /\ QueryIdle

\* The worker is killed on timeout: its waiting clients are gone.
WorkerKilled ==
    /\ \E c \in Clients : cstate[c] = "sent"
    /\ cstate' = [c \in Clients |-> IF cstate[c] = "sent" THEN "gone" ELSE cstate[c]]
    /\ UNCHANGED <<srv, req, hstate, hreq, wire, got, ret, sub_call_count,
                   sub_tokens, max_sub_calls, connVars, busyAtAccept, lateUpdate>>
    /\ QueryIdle

\* stop() / server.shutdown(): returns when the serve_forever loop has ended.
\* The handler threads are not joined.
IpcStop ==
    /\ srv = "serving"
    /\ srv' = "stopped"
    /\ UNCHANGED <<cstate, req, hstate, hreq, wire, got, ret, sub_call_count,
                   sub_tokens, max_sub_calls, connVars, busyAtAccept, lateUpdate>>
    /\ QueryIdle

\* What a client that does not complete its request leaves on the
\* connection before it closes: no byte, three bytes of the length prefix,
\* or a whole frame whose body is not JSON.
ShortRequests == {"0 bytes", "3 bytes"}
BadRequests == ShortRequests \cup {"not json"}

\* len(length_bytes) after self.rfile.read(4)
PrefixLen(r) ==
    CASE r = "0 bytes" -> 0
      [] r = "3 bytes" -> 3
      [] OTHER -> 4

\* (mutant) only an empty read makes the handler return
TooShortEmptyOnly(r) == PrefixLen(r) < 1

\* if len(length_bytes) < 4: return
TooShort(r) == PrefixLen(r) < 4

\* A client is killed while it sends, or sends something else than a request.
ClientSendBad(c) ==
    /\ srv = "serving" /\ cstate[c] = "idle"
    /\ \E r \in BadRequests : req' = [req EXCEPT ![c] = r]
    /\ cstate' = [cstate EXCEPT ![c] = "gone"]
    /\ UNCHANGED <<srv, hstate, hreq, wire, got, ret, sub_call_count, sub_tokens,
                   max_sub_calls, connVars, busyAtAccept, lateUpdate>>
    /\ QueryIdle

\* handle() on such a connection: it returns at once on a short prefix;
\* otherwise struct.unpack or json.loads raises before sub_query_fn is
\* reached, and the except branch writes the error frame.
HandlerReadFails(c) ==
    /\ hstate[c] = "started" /\ req[c] \in BadRequests
    /\ hstate' = [hstate EXCEPT ![c] = "done"]
    /\ IF TooShort(req[c])
          THEN UNCHANGED <<wire, frames>>
          ELSE /\ wire' = [wire EXCEPT ![c] = <<"error", ErrorOf(req[c])>>]
               /\ frames' = [frames EXCEPT
                                ![c] = Append(@, ErrorFrame(ErrorOf(req[c])))]
    /\ UNCHANGED <<srv, cstate, req, hreq, got, ret, sub_call_count, sub_tokens,
                   max_sub_calls, invoked, busyAtAccept, lateUpdate>>
    /\ QueryIdle

NextIPC ==
    \/ IpcStart
    \/ \E c \in Clients : ClientSend(c)
    \/ \E c \in Clients : Accept(c)
    \/ \E c \in Clients : HandlerInvoke(c)
    \/ \E c \in Clients : SubQueryCount(c)
    \/ \E c \in Clients : CallbackReturn(c)
    \/ \E c \in Clients : CallbackRaise(c)
    \/ \E c \in Clients : ClientRecv(c)
    \/ WorkerKilled
    \/ IpcStop

InitIPC ==
    /\ InitIpc
    /\ InitRetryVars /\ max_retries = MaxRetries /\ retry_base_delay = 1
    /\ InitQuery /\ maxIter = 0 /\ impl = "ClaudeRLM"
    /\ InitLib

SpecIPC == InitIPC /\ [][NextIPC]_vars

\* The server with clients that may also fail to send a whole request.
NextHandler ==
    \/ NextIPC
    \/ \E c \in Clients : ClientSendBad(c)
    \/ \E c \in Clients : HandlerReadFails(c)

SpecHandler == InitIPC /\ [][NextHandler]_vars

\* ------------------------------------------------- _api_call_with_retry
RECURSIVE Pow2(_)
Pow2(n) == IF n = 0 THEN 1 ELSE 2 * Pow2(n - 1)

\* (mutant) a delay that grows linearly
DelayLinear(a) == retry_base_delay * (a + 1)

\* delay = retry_base_delay * (2 ** attempt)
Delay(a) == retry_base_delay * Pow2(a)

\* (mutant) no handler of its own: a rate limit is handled as an API error
IsRateLimitErrorNever(o) == FALSE

\* except anthropic.RateLimitError
IsRateLimitError(o) == o = "rate_limit"

\* except anthropic.APIError: the base class of the SDK's API errors, the
\* non-transient ones included.
IsAPIError(o) == o \in {"rate_limit", "api_transient", "api_fatal"}

\* (mutant) one attempt too many
RetryLoopContinuesOffByOne == attempt <= max_retries

\* for attempt in range(max_retries)
RetryLoopContinues == attempt < max_retries

\* (mutant) an API error is slept on and retried on the last attempt too
ApiErrorRetriedAlways == TRUE

\* if attempt < max_retries - 1: sleep and retry, else: raise
ApiErrorRetried == attempt < max_retries - 1

RetryIdle == UNCHANGED <<queryVars, workerVars, histVars, ipcVars, libVars>>

\* A Call begins: last_error = None and the loop starts at attempt 0.
RetryBegin ==
    /\ rpc \in {"idle", "returned", "raised"} /\ callNo < MaxCalls
    /\ rpc' = "loop" /\ attempt' = 0 /\ last_error' = None
    /\ retResult' = None
    /\ apiCalls' = 0 /\ delays' = <<>> /\ outcomes' = <<>>
    /\ callNo' = callNo + 1
    /\ UNCHANGED <<max_retries, retry_base_delay>>
    /\ RetryIdle

\* One pass of the loop body: messages.create is called and its outcome
\* handled by the try statement.
RetryAttempt ==
    /\ rpc = "loop" /\ RetryLoopContinues
    /\ \E o \in Outcomes :
         /\ apiCalls' = apiCalls + 1
         /\ outcomes' = Append(outcomes, o)
         /\ IF o = "ok"
               THEN /\ rpc' = "returned"
                    /\ retResult' = <<"response", attempt + 1>>
                    /\ UNCHANGED <<attempt, last_error, delays>>
            ELSE IF IsRateLimitError(o)
               THEN /\ last_error' = <<"error", o, attempt + 1>>
                    /\ delays' = Append(delays, Delay(attempt))
                    /\ attempt' = attempt + 1
                    /\ UNCHANGED <<rpc, retResult>>
            ELSE IF IsAPIError(o)
               THEN /\ last_error' = <<"error", o, attempt + 1>>
                    /\ IF ApiErrorRetried
                          THEN /\ delays' = Append(delays, Delay(attempt))
                               /\ attempt' = attempt + 1
                               /\ UNCHANGED <<rpc, retResult>>
                          ELSE /\ rpc' = "raised"
                               /\ retResult' = last_error'
                               /\ UNCHANGED <<attempt, delays>>
            ELSE /\ rpc' = "raised"
                 /\ retResult' = <<"error", o, attempt + 1>>
                 /\ UNCHANGED <<attempt, last_error, delays>>
    /\ UNCHANGED <<max_retries, retry_base_delay, callNo>>
    /\ RetryIdle

\* The loop is over: raise last_error.
RetryExhausted ==
    /\ rpc = "loop" /\ ~RetryLoopContinues
    /\ rpc' = "raised" /\ retResult' = last_error
    /\ UNCHANGED <<max_retries, retry_base_delay, attempt, last_error,
                   apiCalls, delays, outcomes, callNo>>
    /\ RetryIdle

NextRetry ==
    \/ RetryBegin
    \/ RetryAttempt
    \/ RetryExhausted

InitRetry ==
    /\ InitIpc /\ max_sub_calls = MaxSubCalls
    /\ InitRetryVars
    /\ InitQuery /\ maxIter = 0 /\ impl = "ClaudeRLM"
    /\ InitLib

SpecRetry == InitRetry /\ [][NextRetry]_vars

\* ------------------------------------------------- output truncation
\* The rest of the model is idle while a library function is looked at.
LibIdle == UNCHANGED <<queryVars, workerVars, histVars, ipcVars, retryVars>>

Chars == {"a", "b"}

\* The non-empty combined outputs (`if code_output:` has been passed).
CodeOutputs == UNION {[1..n -> Chars] : n \in 1..MaxLen}

\* (mutant) the notice is added from the limit on
OutputTooLongAtLimit(o) == Len(o) >= MAX_OUTPUT_CHARS

\* if len(code_output) > MAX_OUTPUT_CHARS
OutputTooLong(o) == Len(o) > MAX_OUTPUT_CHARS

\* code_output[:MAX_OUTPUT_CHARS]
Prefix(o) ==
    IF Len(o) <= MAX_OUTPUT_CHARS THEN o ELSE SubSeq(o, 1, MAX_OUTPUT_CHARS)

\* f"\n... [OUTPUT TRUNCATED: {len(code_output):,} chars total, showing first
\* {MAX_OUTPUT_CHARS:,}]": the two numbers the notice prints.
Notice(o) == <<"OUTPUT TRUNCATED", Len(o), MAX_OUTPUT_CHARS>>

\* truncated: the prefix, with the notice appended when the output is longer
\* than the limit.
Truncated(o) ==
    [text |-> Prefix(o), notice |-> IF OutputTooLong(o) THEN Notice(o) ELSE None]

\* The loop formats the combined output of a batch for the user message.
FormatOutput ==
    /\ tOut # <<>> /\ tFed = NotFed
    /\ tFed' = Truncated(tOut)
    /\ UNCHANGED <<tOut, chain, mwpc, mwIdx, mwVal, preLog, postLog, extVars>>
    /\ LibIdle

InitTrunc ==
    /\ InitIpc /\ max_sub_calls = MaxSubCalls
    /\ InitRetryVars /\ max_retries = MaxRetries /\ retry_base_delay = 1
    /\ InitQuery /\ maxIter = 0 /\ impl = "ClaudeRLM"
    /\ tOut \in CodeOutputs /\ tFed = NotFed
    /\ InitMwIdle
    /\ InitExt

NextTrunc == FormatOutput

SpecTrunc == InitTrunc /\ [][NextTrunc]_vars

\* ------------------------------------------------------ MiddlewareChain
\* A middleware is the pair of facts hasattr(mw, "pre_query") and
\* hasattr(mw, "post_query"); its identity is its position in the chain.
\* The value a method returns is what it received with the method's own mark
\* added, so that the values passed along tell who handled them.
Chains == UNION {[1..n -> [pre : BOOLEAN, post : BOOLEAN]] : n \in 1..MaxMw}

\* (mutant) run_post walks the chain in registration order
PostOrderForward(n) == [k \in 1..n |-> k]

\* for mw in reversed(self._middlewares)
PostOrder(n) == [k \in 1..n |-> n + 1 - k]

\* for mw in self._middlewares
PreOrder(n) == [k \in 1..n |-> k]

MwFrame == UNCHANGED <<tOut, tFed, chain, extVars>> /\ LibIdle

\* run_pre(question, context) is called.
RunPre ==
    /\ mwpc = "idle"
    /\ mwpc' = "pre" /\ mwIdx' = 1 /\ mwVal' = <<"question">>
    /\ UNCHANGED <<preLog, postLog>>
    /\ MwFrame

\* One pass of the for loop of run_pre.
RunPreStep ==
    /\ mwpc = "pre" /\ mwIdx <= Len(chain)
    /\ LET mw == PreOrder(Len(chain))[mwIdx] IN
         IF chain[mw].pre
            THEN /\ preLog' = Append(preLog, <<mw, mwVal>>)
                 /\ mwVal' = Append(mwVal, mw)
            ELSE UNCHANGED <<preLog, mwVal>>
    /\ mwIdx' = mwIdx + 1
    /\ UNCHANGED <<mwpc, postLog>>
    /\ MwFrame

\* return question, context
RunPreReturn ==
    /\ mwpc = "pre" /\ mwIdx > Len(chain)
    /\ mwpc' = "ran_pre"
    /\ UNCHANGED <<mwIdx, mwVal, preLog, postLog>>
    /\ MwFrame

\* run_post(result) is called.
RunPost ==
    /\ mwpc = "ran_pre"
    /\ mwpc' = "post" /\ mwIdx' = 1 /\ mwVal' = <<"result">>
    /\ UNCHANGED <<preLog, postLog>>
    /\ MwFrame

\* One pass of the for loop of run_post.
RunPostStep ==
    /\ mwpc = "post" /\ mwIdx <= Len(chain)
    /\ LET mw == PostOrder(Len(chain))[mwIdx] IN
         IF chain[mw].post
            THEN /\ postLog' = Append(postLog, <<mw, mwVal>>)
                 /\ mwVal' = Append(mwVal, mw)
            ELSE UNCHANGED <<postLog, mwVal>>
    /\ mwIdx' = mwIdx + 1
    /\ UNCHANGED <<mwpc, preLog>>
    /\ MwFrame

\* return result
RunPostReturn ==
    /\ mwpc = "post" /\ mwIdx > Len(chain)
    /\ mwpc' = "ran_post"
    /\ UNCHANGED <<mwIdx, mwVal, preLog, postLog>>
    /\ MwFrame

InitMw ==
    /\ InitIpc /\ max_sub_calls = MaxSubCalls
    /\ InitRetryVars /\ max_retries = MaxRetries /\ retry_base_delay = 1
    /\ InitQuery /\ maxIter = 0 /\ impl = "QueryOrchestrator"
    /\ tOut = <<>> /\ tFed = NotFed
    /\ chain \in Chains /\ mwpc = "idle" /\ mwIdx = 0 /\ mwVal = <<>>
    /\ preLog = <<>> /\ postLog = <<>>
    /\ InitExt

NextMw ==
    \/ RunPre
    \/ RunPreStep
    \/ RunPreReturn
    \/ RunPost
    \/ RunPostStep
    \/ RunPostReturn

SpecMw == InitMw /\ [][NextMw]_vars

\* ------------------------------------------------ IPCServer start / stop
MaxLcOps == 4

\* The ports the operating system may hand to a listener bound to port 0.
Ports == 1..2

LcState == <<port, server, serving>>

\* The other library state is idle while the server's lifecycle is looked at.
LcIdle ==
    /\ UNCHANGED <<tOut, tFed, chain, mwpc, mwIdx, mwVal, preLog, postLog>>
    /\ UNCHANGED <<parseVars, eqVars, batchVars, loopVars, regVars>>
    /\ LibIdle

\* The number of servers created so far: the next one is a new object.
Started == Cardinality({i \in 1..Len(lcLog) : lcLog[i] \in {"start", "enter"}})

\* start(): a new ThreadingTCPServer bound to ("127.0.0.1", 0) replaces
\* self._server, self._port is the port it was given, its serve_forever
\* thread is started, and the port is returned.
start(p) ==
    /\ server' = <<"server", Started + 1>>
    /\ port' = p
    /\ serving' = serving \cup {<<"server", Started + 1>>}
    /\ lastStarted' = <<"server", Started + 1>>
    /\ lcOut' = <<"port", p>>

\* (mutant) stop() without the `is not None` test
stop_unguarded ==
    IF server # None
    THEN /\ serving' = serving \ {server}
         /\ server' = None /\ port' = 0
         /\ lcOut' = None
    ELSE /\ lcOut' = <<"AttributeError">>
         /\ UNCHANGED <<port, server, serving>>

\* stop(): if self._server is not None: shutdown(), then _server = None,
\* _thread = None, _port = 0. Returns None.
stop ==
    /\ IF server # None
       THEN /\ serving' = serving \ {server}
            /\ server' = None /\ port' = 0
       ELSE UNCHANGED <<port, server, serving>>
    /\ lcOut' = None

LcCall(op) ==
    /\ Len(lcLog) < MaxLcOps
    /\ lcLog' = Append(lcLog, op)
    /\ lcPrev' = LcState
    /\ LcIdle

LcStart ==
    /\ LcCall("start")
    /\ \E p \in Ports : start(p)
    /\ UNCHANGED withDepth

LcStop ==
    /\ LcCall("stop")
    /\ stop
    /\ UNCHANGED <<lastStarted, withDepth>>

\* __enter__: self.start(); return self
LcEnter ==
    /\ LcCall("enter")
    /\ \E p \in Ports : start(p)
    /\ withDepth' = withDepth + 1

\* __exit__(*exc): self.stop(), whether the block ended normally or an
\* exception left it; returns None, so the exception goes on.
LcExit ==
    /\ withDepth > 0
    /\ \E exc \in {"exit", "exit_exc"} : LcCall(exc)
    /\ stop
    /\ withDepth' = withDepth - 1
    /\ UNCHANGED lastStarted

NextLifecycle ==
    \/ LcStart
    \/ LcStop
    \/ LcEnter
    \/ LcExit

SpecLifecycle == InitIPC /\ [][NextLifecycle]_vars

\* ------------------------------------------------- parse_final_answer
MaxTokens == 3

FieldLabels == {"SOURCE_EVIDENCE:", "CONFIDENCE:", "VERIFICATION_METHOD:"}
Labels == {"FINAL_ANSWER:"} \cup FieldLabels

\* A response text is a sequence of tokens: a label (in any letter case, the
\* patterns are compiled with re.IGNORECASE), "w" a run of word characters,
\* " " a blank, "!" a character that is neither.
Tokens == Labels \cup {"w", " ", "!"}
Texts == UNION {[1..n -> Tokens] : n \in 0..MaxTokens}

Unknown == <<"unknown">>

\* The index of the first token of r that is in S, or 0.
FirstIdx(r, S) ==
    IF \E i \in 1..Len(r) : r[i] \in S
    THEN CHOOSE i \in 1..Len(r) : r[i] \in S /\ \A j \in 1..(i - 1) : r[j] \notin S
    ELSE 0

\* \s* : the blanks from position i on
Blanks(r, i) ==
    Cardinality({j \in i..Len(r) : \A m \in i..j : r[m] = " "})

\* str.strip()
RECURSIVE Strip(_)
Strip(t) ==
    IF t = <<>> THEN t
    ELSE IF t[1] = " " THEN Strip(Tail(t))
    ELSE IF t[Len(t)] = " " THEN Strip(SubSeq(t, 1, Len(t) - 1))
    ELSE t

\* re.search(label \s*(.+?)(?=stops|$), r, DOTALL): the leftmost label that
\* has something after it matches; \s* takes the blanks (all but the last
\* when nothing else follows), and the lazy group takes at least one
\* character and stops before the first of `stops` that begins after that
\* character, or at the end of the text. NoMatch when no label matches.
NoMatch == <<"NoMatch">>
SearchLazy(r, label, stops) ==
    LET i == FirstIdx(r, {label})
    IN  IF i = 0 \/ i = Len(r) THEN NoMatch
        ELSE LET k == Blanks(r, i + 1)
                 first == IF i + k = Len(r) THEN Len(r) ELSE i + k + 1
                 e == CHOOSE e \in first..Len(r) :
                        /\ e = Len(r) \/ r[e + 1] \in stops
                        /\ \A f \in first..(e - 1) : r[f + 1] \notin stops
             IN  SubSeq(r, first, e)

\* What \w+ takes of a token: a word run whole, a label up to its colon.
WordOf(t) ==
    CASE t = "w" -> "w"
      [] t = "FINAL_ANSWER:" -> "FINAL_ANSWER"
      [] t = "SOURCE_EVIDENCE:" -> "SOURCE_EVIDENCE"
      [] t = "CONFIDENCE:" -> "CONFIDENCE"
      [] t = "VERIFICATION_METHOD:" -> "VERIFICATION_METHOD"

\* \w+ from position i on: the word runs, and the name of a label that
\* follows them directly.
RECURSIVE WordRun(_, _)
WordRun(r, i) ==
    IF i > Len(r) \/ r[i] \in {" ", "!"} THEN <<>>
    ELSE IF r[i] = "w" THEN <<"w">> \o WordRun(r, i + 1)
    ELSE <<WordOf(r[i])>>

\* re.search(r"CONFIDENCE:\s*(\w+)", r): the leftmost CONFIDENCE: label that
\* is followed, after blanks, by a word character.
SearchWord(r) ==
    LET hits == {i \in 1..Len(r) :
                    /\ r[i] = "CONFIDENCE:"
                    /\ WordRun(r, i + 1 + Blanks(r, i + 1)) # <<>>}
    IN  IF hits = {} THEN NoMatch
        ELSE LET i == CHOOSE i \in hits : \A j \in hits : i <= j
             IN  WordRun(r, i + 1 + Blanks(r, i + 1))

\* result[key] = match.group(1).strip() if match, else the default
Field(m, default) == IF m = NoMatch THEN default ELSE Strip(m)

\* parse_final_answer(response): the four fields of the dict it returns.
ParseFinalAnswer(r) ==
    LET answer == Field(SearchLazy(r, "FINAL_ANSWER:", FieldLabels), None)
    IN  [answer |-> IF answer = None \/ answer = <<>> THEN r ELSE answer,
         evidence |-> Field(SearchLazy(r, "SOURCE_EVIDENCE:",
                                {"CONFIDENCE:", "VERIFICATION_METHOD:"}), None),
         confidence |-> Field(SearchWord(r), Unknown),
         verification |-> Field(SearchLazy(r, "VERIFICATION_METHOD:", {}), None)]

ParseIdle ==
    /\ UNCHANGED <<tOut, tFed, chain, mwpc, mwIdx, mwVal, preLog, postLog>>
    /\ UNCHANGED <<lcVars, eqVars, batchVars, loopVars, regVars>>
    /\ LibIdle

Parse ==
    /\ parsed = NotParsed
    /\ parsed' = ParseFinalAnswer(response)
    /\ UNCHANGED response
    /\ ParseIdle

InitParse ==
    /\ InitIpc /\ max_sub_calls = MaxSubCalls
    /\ InitRetryVars /\ max_retries = MaxRetries /\ retry_base_delay = 1
    /\ InitQuery /\ maxIter = 0 /\ impl = "QueryOrchestrator"
    /\ tOut = <<>> /\ tFed = NotFed
    /\ InitMwIdle
    /\ InitLifecycle /\ InitEqIdle /\ InitBatchIdle /\ InitLoopIdle
    /\ InitRegIdle
    /\ response \in Texts /\ parsed = NotParsed

NextParse == Parse

SpecParse == InitParse /\ [][NextParse]_vars

\* ------------------------------------- QueryOrchestrator.run and arun
\* What a root-model response, with the sandbox outcome of its code, can be:
\* it has the FINAL_ANSWER: marker; it has code that calls FINAL() / FINAL_VAR();
\* it has code that prints something; it has code that prints nothing; it has
\* no code block.
ScriptKinds == {"marker", "final_in_code", "output", "no_output", "no_code"}

Scripts == [1..(MaxIterBound + 1) -> ScriptKinds]

\* (response_text, in_tok, out_tok): the usage the client reports for a call.
InTok(messages) == Len(messages)
OutTok(kind) == IF kind = "no_code" THEN 1 ELSE 2

\* parse_final_answer(...) / build_result(...) as the loop calls them, then
\* self.middleware.run_post(result).
EqResult(answer, s, in) ==
    [answer |-> answer,
     root_input_tokens |-> s.root_input_tokens,
     root_output_tokens |-> s.root_output_tokens,
     trajectory |-> IF in.save_trajectory THEN s.trajectory ELSE None,
     post |-> TRUE]

\* run(): lines 102-123 of query_loop.py. run_pre, the locals, the first message.
run_begin(in) ==
    [at |-> "loop", iteration |-> 0, calls |-> 0,
     messages |-> << <<"user", "question", 0>> >>,
     trajectory |-> <<>>,
     root_input_tokens |-> 0, root_output_tokens |-> 0,
     trace |-> << <<"run_pre">> >>,
     result |-> None]

\* run(): lines 125-156, 197-206. One pass of the loop body up to the return, the sandbox
\* call or the next pass: self.llm_client.call, the token sums, the
\* trajectory record, the marker test, the extraction of the code blocks.
run_iteration(s, in) ==
    LET k == s.calls + 1
        kind == in.script[k]
        t == [s EXCEPT !.calls = k,
                       !.trace = Append(@, <<"llm", s.messages>>),
                       !.root_input_tokens = @ + InTok(s.messages),
                       !.root_output_tokens = @ + OutTok(kind),
                       !.trajectory = Append(@, <<s.iteration + 1, k>>)]
    IN  IF kind = "marker"
        THEN [t EXCEPT !.at = "done",
                       !.result = EqResult(<<"parse_final_answer", k>>, t, in),
                       !.trace = Append(@, <<"run_post", k, "result", "dict">>)]
        ELSE IF kind = "no_code"
        THEN [t EXCEPT !.at = "loop", !.iteration = @ + 1,
                       !.messages = @ \o << <<"assistant", "response", k>>,
                                            <<"user", "no_code", k>> >>]
        ELSE [t EXCEPT !.at = "exec"]

\* (mutant) after code without output only the assistant message is appended
run_execute_one_message(s, in) ==
    LET k == s.calls
        kind == in.script[k]
        t == [s EXCEPT !.trace = Append(@, <<"execute", k, "sandbox">>)]
    IN  IF kind = "final_in_code"
        THEN [t EXCEPT !.at = "done",
                       !.result = EqResult(<<"build_result", k>>, t, in),
                       !.trace = Append(@, <<"run_post", k, "result", "dict">>)]
        ELSE [t EXCEPT !.at = "loop", !.iteration = @ + 1,
                       !.messages = @ \o
                          IF kind = "output"
                          THEN << <<"assistant", "response", k>>,
                                  <<"user", "code_output", k>> >>
                          ELSE << <<"assistant", "response", k>> >>]

\* run(): lines 157-196. self._execute_blocks(...) and what follows it in the
\* loop body.
run_execute(s, in) ==
    LET k == s.calls
        kind == in.script[k]
        t == [s EXCEPT !.trace = Append(@, <<"execute", k, "sandbox">>)]
    IN  IF kind = "final_in_code"
        THEN [t EXCEPT !.at = "done",
                       !.result = EqResult(<<"build_result", k>>, t, in),
                       !.trace = Append(@, <<"run_post", k, "result", "dict">>)]
        ELSE [t EXCEPT !.at = "loop", !.iteration = @ + 1,
                       !.messages = @ \o
                          << <<"assistant", "response", k>>,
                             <<"user", IF kind = "output" THEN "code_output"
                                       ELSE "no_code", k>> >>]

\* run(): lines 208-231. The iteration-limit message, the forced call, the parse.
run_forced(s, in) ==
    LET k == s.calls + 1
        msgs == Append(s.messages, <<"user", "limit", 0>>)
        t == [s EXCEPT !.calls = k, !.messages = msgs,
                       !.trace = Append(@, <<"llm", msgs>>),
                       !.root_input_tokens = @ + InTok(msgs),
                       !.root_output_tokens = @ + OutTok(in.script[k])]
    IN  [t EXCEPT !.at = "done",
                  !.result = EqResult(<<"parse_final_answer", k>>, t, in),
                  !.trace = Append(@, <<"run_post", k, "result", "dict">>)]

\* run() from one suspension point to the next.
run_step(s, in) ==
    IF s.at = "idle" THEN run_begin(in)
    ELSE IF s.at = "exec" THEN run_execute(s, in)
    ELSE IF s.iteration < in.max_iterations THEN run_iteration(s, in)
    ELSE run_forced(s, in)

\* arun(): lines 243-262 of query_loop.py. run_pre, the locals, the first message.
arun_begin(in) ==
    [at |-> "loop", iteration |-> 0, calls |-> 0,
     messages |-> << <<"user", "question", 0>> >>,
     trajectory |-> <<>>,
     root_input_tokens |-> 0, root_output_tokens |-> 0,
     trace |-> << <<"run_pre">> >>,
     result |-> None]

\* arun(): lines 264-292, 335-343. One pass of the loop body up to the return, the sandbox
\* call or the next pass: await self.llm_client.call, the token sums, the
\* trajectory record, the marker test, the extraction of the code blocks.
arun_iteration(s, in) ==
    LET k == s.calls + 1
        kind == in.script[k]
        t == [s EXCEPT !.calls = k,
                       !.trace = Append(@, <<"llm", s.messages>>),
                       !.root_input_tokens = @ + InTok(s.messages),
                       !.root_output_tokens = @ + OutTok(kind),
                       !.trajectory = Append(@, <<s.iteration + 1, k>>)]
    IN  IF kind = "marker"
        THEN [t EXCEPT !.at = "done",
                       !.result = EqResult(<<"parse_final_answer", k>>, t, in),
                       !.trace = Append(@, <<"run_post", k, "result", "dict">>)]
        ELSE IF kind = "no_code"
        THEN [t EXCEPT !.at = "loop", !.iteration = @ + 1,
                       !.messages = @ \o << <<"assistant", "response", k>>,
                                            <<"user", "no_code", k>> >>]
        ELSE [t EXCEPT !.at = "exec"]

\* arun(): lines 293-334. self._execute_blocks(...) and what follows it in the
\* loop body.
arun_execute(s, in) ==
    LET k == s.calls
        kind == in.script[k]
        t == [s EXCEPT !.trace = Append(@, <<"execute", k, "sandbox">>)]
    IN  IF kind = "final_in_code"
        THEN [t EXCEPT !.at = "done",
                       !.result = EqResult(<<"build_result", k>>, t, in),
                       !.trace = Append(@, <<"run_post", k, "result", "dict">>)]
        ELSE [t EXCEPT !.at = "loop", !.iteration = @ + 1,
                       !.messages = @ \o
                          << <<"assistant", "response", k>>,
                             <<"user", IF kind = "output" THEN "code_output"
                                       ELSE "no_code", k>> >>]

\* (mutant) arun makes the forced call without the iteration-limit message
arun_forced_unprompted(s, in) ==
    LET k == s.calls + 1
        msgs == s.messages
        t == [s EXCEPT !.calls = k, !.messages = msgs,
                       !.trace = Append(@, <<"llm", msgs>>),
                       !.root_input_tokens = @ + InTok(msgs),
                       !.root_output_tokens = @ + OutTok(in.script[k])]
    IN  [t EXCEPT !.at = "done",
                  !.result = EqResult(<<"parse_final_answer", k>>, t, in),
                  !.trace = Append(@, <<"run_post", k, "result", "dict">>)]
\* arun(): lines 345-367. The iteration-limit message, the forced call, the parse.
arun_forced(s, in) ==
    LET k == s.calls + 1
        msgs == Append(s.messages, <<"user", "limit", 0>>)
        t == [s EXCEPT !.calls = k, !.messages = msgs,
                       !.trace = Append(@, <<"llm", msgs>>),
                       !.root_input_tokens = @ + InTok(msgs),
                       !.root_output_tokens = @ + OutTok(in.script[k])]
    IN  [t EXCEPT !.at = "done",
                  !.result = EqResult(<<"parse_final_answer", k>>, t, in),
                  !.trace = Append(@, <<"run_post", k, "result", "dict">>)]

\* arun() from one suspension point to the next.
arun_step(s, in) ==
    IF s.at = "idle" THEN arun_begin(in)
    ELSE IF s.at = "exec" THEN arun_execute(s, in)
    ELSE IF s.iteration < in.max_iterations THEN arun_iteration(s, in)
    ELSE arun_forced(s, in)

EqIdle ==
    /\ UNCHANGED <<tOut, tFed, chain, mwpc, mwIdx, mwVal, preLog, postLog>>
    /\ UNCHANGED <<lcVars, parseVars, batchVars, loopVars, regVars>>
    /\ LibIdle

\* run() goes on to its next suspension point.
RunStep ==
    /\ eqRun.at # "done"
    /\ eqRun' = run_step(eqRun, eqIn)
    /\ UNCHANGED <<eqIn, eqArun>>
    /\ EqIdle

\* arun() is resumed and goes on to its next suspension point.
ArunStep ==
    /\ eqArun.at # "done"
    /\ eqArun' = arun_step(eqArun, eqIn)
    /\ UNCHANGED <<eqIn, eqRun>>
    /\ EqIdle

InitEquiv ==
    /\ InitIpc /\ max_sub_calls = MaxSubCalls
    /\ InitRetryVars /\ max_retries = MaxRetries /\ retry_base_delay = 1
    /\ InitQuery /\ maxIter = 0 /\ impl = "QueryOrchestrator"
    /\ tOut = <<>> /\ tFed = NotFed
    /\ InitMwIdle
    /\ InitLifecycle /\ InitParseIdle /\ InitBatchIdle /\ InitLoopIdle
    /\ InitRegIdle
    /\ eqIn \in [max_iterations : 0..MaxIterBound, save_trajectory : BOOLEAN,
                 script : Scripts]
    /\ eqRun = NotCalled /\ eqArun = NotCalled

NextEquiv ==
    \/ RunStep
    \/ ArunStep

SpecEquiv == InitEquiv /\ [][NextEquiv]_vars

\* ------------------------------------------------- _execute_code_blocks
MaxBatch == 3

\* How the execution of a block can end: it completes, having printed
\* something or nothing; the user code raises; the worker is killed on
\* timeout; the code calls FINAL() / FINAL_VAR().
BlockEnds == {"printed", "silent", "error", "timeout", "final"}

\* result["output"] of the i-th block, as a sequence of texts: the stdout of
\* a block that printed, the "STDERR: ..." text of one that raised, the
\* "Error: Code timed out" text of one that was killed, nothing otherwise.
BlockOutput(i, end) ==
    IF end \in {"silent", "final"} THEN <<>> ELSE << <<i, end>> >>

\* The dict _safe_run / sandbox.execute returns for the i-th block.
BlockResult(i, end) ==
    [returned |-> "dict",
     output |-> BlockOutput(i, end), terminated |-> (end = "final"),
     final_answer |-> IF end = "final" THEN <<"answer", i>> ELSE None]

\* (mutant) the output of a block is put in front of the earlier ones
CollectInFront(outs, o) == IF o # <<>> THEN <<o>> \o outs ELSE outs

\* if result["output"]: outputs.append(result["output"])
Collect(outs, o) == IF o # <<>> THEN Append(outs, o) ELSE outs

\* "\n".join(outputs)
RECURSIVE Join(_)
Join(outs) == IF outs = <<>> THEN <<>> ELSE Head(outs) \o Join(Tail(outs))

BatchIdle ==
    /\ UNCHANGED <<tOut, tFed, chain, mwpc, mwIdx, mwVal, preLog, postLog>>
    /\ UNCHANGED <<lcVars, parseVars, eqVars, loopVars, regVars>>
    /\ LibIdle

\* One pass of `for code in matches`: the block is executed; a terminated
\* result is returned at once, any other has its output collected.
ExecuteBlock ==
    /\ bRet = NotReturned /\ bIdx < Len(matches)
    /\ LET i == bIdx + 1
           res == BlockResult(i, matches[i])
       IN  /\ bLog' = Append(bLog, i)
           /\ bIdx' = i
           /\ IF res.terminated
                 THEN bRet' = res /\ UNCHANGED bOutputs
                 ELSE bOutputs' = Collect(bOutputs, res.output) /\ UNCHANGED bRet
    /\ UNCHANGED matches
    /\ BatchIdle

\* The loop is over: the outputs are joined and returned. (With no block at
\* all ClaudeRLM._execute_code_blocks returns None before the loop;
\* QueryOrchestrator.run does not call _execute_blocks then.)
ReturnBatch ==
    /\ bRet = NotReturned /\ bIdx = Len(matches)
    /\ bRet' = IF matches = <<>>
               THEN [returned |-> "None"]
               ELSE [returned |-> "dict",
                     output |-> IF bOutputs = <<>> THEN None ELSE Join(bOutputs),
                     terminated |-> FALSE, final_answer |-> None]
    /\ UNCHANGED <<matches, bIdx, bOutputs, bLog>>
    /\ BatchIdle

InitBatch ==
    /\ InitIpc /\ max_sub_calls = MaxSubCalls
    /\ InitRetryVars /\ max_retries = MaxRetries /\ retry_base_delay = 1
    /\ InitQuery /\ maxIter = 0 /\ impl = "ClaudeRLM"
    /\ tOut = <<>> /\ tFed = NotFed
    /\ InitMwIdle
    /\ InitLifecycle /\ InitParseIdle /\ InitEqIdle /\ InitLoopIdle
    /\ InitRegIdle
    /\ matches \in UNION {[1..n -> BlockEnds] : n \in 0..MaxBatch}
    /\ bIdx = 0 /\ bOutputs = <<>> /\ bRet = NotReturned /\ bLog = <<>>

NextBatch ==
    \/ ExecuteBlock
    \/ ReturnBatch

SpecBatch == InitBatch /\ [][NextBatch]_vars

\* ---------------------------------- ClaudeRLM.query: the loop's bookkeeping
MaxQueries == 2

\* (mutant) query() starts without reset_state()
query_begin_without_reset(self, in) ==
    [at |-> "loop", iteration |-> 0, calls |-> 0,
     messages |-> << <<"user", "question", 0>> >>,
     trajectory |-> self.trajectory,
     root_input_tokens |-> self.root_input_tokens,
     root_output_tokens |-> self.root_output_tokens,
     trace |-> <<>>,
     result |-> None]

\* query(): lines 369-397 of claude_rlm.py. self.reset_state(), the system
\* prompt, the first message.
query_begin(self, in) ==
    [at |-> "loop", iteration |-> 0, calls |-> 0,
     messages |-> << <<"user", "question", 0>> >>,
     trajectory |-> <<>>,
     root_input_tokens |-> 0,
     root_output_tokens |-> 0,
     trace |-> <<>>,
     result |-> None]

\* _call_root_model(system, messages): the call, and the usage added to the
\* counters if self.config.track_costs.
call_root_model(s, in, msgs, kind) ==
    [s EXCEPT !.calls = @ + 1,
              !.trace = Append(@, <<"llm", msgs>>),
              !.root_input_tokens =
                  IF in.track_costs THEN @ + InTok(msgs) ELSE @,
              !.root_output_tokens =
                  IF in.track_costs THEN @ + OutTok(kind) ELSE @]

\* _parse_final_answer(response) / _build_result(answer, source): the
\* counters and the trajectory as they are when the result is built.
QueryResult(answer, s, in) ==
    [answer |-> answer,
     root_input_tokens |-> s.root_input_tokens,
     root_output_tokens |-> s.root_output_tokens,
     trajectory |-> IF in.save_trajectory THEN s.trajectory ELSE None,
     post |-> FALSE]

\* query(): lines 399-418, 449-460. One pass of the loop body up to the
\* return, the execution of the code blocks or the next pass.
query_iteration(s, in) ==
    LET k == s.calls + 1
        kind == in.script[k]
        c == call_root_model(s, in, s.messages, kind)
        t == [c EXCEPT !.trajectory = Append(@, <<s.iteration + 1, k>>)]
    IN  IF kind = "marker"
        THEN [t EXCEPT !.at = "done",
                       !.result = QueryResult(<<"parse_final_answer", k>>, t, in)]
        ELSE IF kind = "no_code"
        THEN [t EXCEPT !.at = "loop", !.iteration = @ + 1,
                       !.messages = @ \o << <<"assistant", "response", k>>,
                                            <<"user", "no_code", k>> >>]
        ELSE [t EXCEPT !.at = "exec"]

\* query(): lines 417-460. self._execute_code_blocks(response) and what
\* follows it in the loop body.
query_execute(s, in) ==
    LET k == s.calls
        kind == in.script[k]
        t == [s EXCEPT !.trace = Append(@, <<"execute", k, "sandbox">>)]
    IN  IF kind = "final_in_code"
        THEN [t EXCEPT !.at = "done",
                       !.result = QueryResult(<<"build_result", k>>, t, in)]
        ELSE [t EXCEPT !.at = "loop", !.iteration = @ + 1,
                       !.messages = @ \o
                          << <<"assistant", "response", k>>,
                             <<"user", IF kind = "output" THEN "code_output"
                                       ELSE "no_code", k>> >>]

\* (mutant) the forced final call is recorded in the trajectory too
query_forced_recorded(s, in) ==
    LET k == s.calls + 1
        msgs == Append(s.messages, <<"user", "limit", 0>>)
        c == call_root_model(s, in, msgs, in.script[k])
        t == [c EXCEPT !.messages = msgs,
                       !.trajectory = Append(@, <<s.iteration + 1, k>>)]
    IN  [t EXCEPT !.at = "done",
                  !.result = QueryResult(<<"parse_final_answer", k>>, t, in)]

\* query(): lines 462-474. The iteration-limit message, the forced call,
\* the parse.
query_forced(s, in) ==
    LET k == s.calls + 1
        msgs == Append(s.messages, <<"user", "limit", 0>>)
        c == call_root_model(s, in, msgs, in.script[k])
        t == [c EXCEPT !.messages = msgs]
    IN  [t EXCEPT !.at = "done",
                  !.result = QueryResult(<<"parse_final_answer", k>>, t, in)]

\* query() from one blocking call to the next.
query_step(s, in) ==
    IF s.at = "exec" THEN query_execute(s, in)
    ELSE IF s.iteration < in.max_iterations THEN query_iteration(s, in)
    ELSE query_forced(s, in)

\* The arguments and configuration of the query, with the responses given.
LoopIn(script) ==
    [max_iterations |-> lpCfg.max_iterations,
     save_trajectory |-> lpCfg.save_trajectory,
     track_costs |-> lpCfg.track_costs,
     script |-> script]

LoopIdle ==
    /\ UNCHANGED <<tOut, tFed, chain, mwpc, mwIdx, mwVal, preLog, postLog>>
    /\ UNCHANGED <<lcVars, parseVars, eqVars, batchVars, regVars>>
    /\ LibIdle

\* query(question) / run(question, context) is called on the object.
LoopBegin ==
    /\ lpRun.at \in {"idle", "done"} /\ lpQ < MaxQueries
    /\ lpQ' = lpQ + 1
    /\ lpScript' = <<>>
    /\ lpRun' = IF lpCfg.impl = "ClaudeRLM"
                THEN query_begin(lpRun, LoopIn(<<>>))
                ELSE run_begin(LoopIn(<<>>))
    /\ UNCHANGED lpCfg
    /\ LoopIdle

\* The root model is called and gives some response.
LoopCall ==
    /\ lpRun.at = "loop"
    /\ \E kind \in ScriptKinds :
         /\ lpScript' = Append(lpScript, kind)
         /\ lpRun' = IF lpCfg.impl = "ClaudeRLM"
                     THEN query_step(lpRun, LoopIn(lpScript'))
                     ELSE run_step(lpRun, LoopIn(lpScript'))
    /\ UNCHANGED <<lpCfg, lpQ>>
    /\ LoopIdle

\* The code blocks of the response are executed.
LoopExecute ==
    /\ lpRun.at = "exec"
    /\ lpRun' = IF lpCfg.impl = "ClaudeRLM"
                THEN query_step(lpRun, LoopIn(lpScript))
                ELSE run_step(lpRun, LoopIn(lpScript))
    /\ UNCHANGED <<lpCfg, lpQ, lpScript>>
    /\ LoopIdle

InitLoop ==
    /\ InitIpc /\ max_sub_calls = MaxSubCalls
    /\ InitRetryVars /\ max_retries = MaxRetries /\ retry_base_delay = 1
    /\ InitQuery /\ maxIter = 0 /\ impl = "ClaudeRLM"
    /\ tOut = <<>> /\ tFed = NotFed
    /\ InitMwIdle
    /\ InitLifecycle /\ InitParseIdle /\ InitEqIdle /\ InitBatchIdle
    /\ InitRegIdle
    /\ lpCfg \in [impl : Impls, max_iterations : 0..MaxIterBound,
                  save_trajectory : BOOLEAN, track_costs : BOOLEAN]
    /\ lpQ = 0 /\ lpScript = <<>> /\ lpRun = NewObject

NextLoop ==
    \/ LoopBegin
    \/ LoopCall
    \/ LoopExecute

SpecLoop == InitLoop /\ [][NextLoop]_vars

\* ------------------------------------------------- DocumentRegistry
\* The rest of the model is idle while the registry is looked at on its own.
RegIdle ==
    /\ UNCHANGED <<tOut, tFed, chain, mwpc, mwIdx, mwVal, preLog, postLog>>
    /\ UNCHANGED <<lcVars, parseVars, eqVars, batchVars, loopVars>>
    /\ LibIdle

\* bool(x) of an Optional[str]: None and the empty string are false.
Truthy(v) == IF v = None THEN FALSE ELSE v[2] # ""

\* DocumentMeta(doc_id, source, char_count = len(text),
\* token_estimate = len(text) // 4, preview = text[:500])
Meta(doc_id, source, text) ==
    [doc_id |-> doc_id, source |-> source, char_count |-> Len(text),
     token_estimate |-> Len(text) \div 4,
     preview |-> SubSeq(text, 1, IF Len(text) < 500 THEN Len(text) ELSE 500)]

\* d[k] = v
Put(d, k, v) == [x \in DOMAIN d \cup {k} |-> IF x = k THEN v ELSE d[x]]

\* d.pop(k, None)
Pop(d, k) == [x \in DOMAIN d \ {k} |-> d[x]]

\* What a call leaves behind for its caller: the value returned or the
\* exception raised, with the object's fields as they were when it began.
Outcome(op, arg, raised, value) ==
    [op |-> op, arg |-> arg, raised |-> raised, value |-> value,
     before |-> <<documents, metadata, active_id>>]

\* The most recent load, and whether that id has been removed since.
Loaded(doc_id, text) ==
    [loaded |-> TRUE, id |-> doc_id, text |-> text, removed |-> FALSE]

\* load(doc_id, source, text)
load(doc_id, source, text) ==
    /\ regOps < MaxRegOps
    /\ documents' = Put(documents, doc_id, text)
    /\ metadata' = Put(metadata, doc_id, Meta(doc_id, source, text))
    /\ active_id' = <<"str", doc_id>>
    /\ regOut' = Outcome("load", doc_id, "no", Meta(doc_id, source, text))
    /\ regLast' = Loaded(doc_id, text)
    /\ regOps' = regOps + 1
    /\ RegIdle

\* load_text(doc_id, text)
load_text(doc_id, text) == load(doc_id, "text", text)

\* get(doc_id)
get(doc_id) ==
    /\ regOps < MaxRegOps
    /\ regOut' = IF doc_id \notin DOMAIN documents
                 THEN Outcome("get", doc_id, "KeyError", None)
                 ELSE Outcome("get", doc_id, "no", documents[doc_id])
    /\ regOps' = regOps + 1
    /\ UNCHANGED <<documents, metadata, active_id, regLast>>
    /\ RegIdle

\* get_active()
get_active ==
    /\ regOps < MaxRegOps
    /\ regOut' = IF Truthy(active_id) /\ active_id[2] \in DOMAIN documents
                 THEN Outcome("get_active", "", "no", documents[active_id[2]])
                 ELSE Outcome("get_active", "", "no", None)
    /\ regOps' = regOps + 1
    /\ UNCHANGED <<documents, metadata, active_id, regLast>>
    /\ RegIdle

\* remove(doc_id)
remove(doc_id) ==
    /\ regOps < MaxRegOps
    /\ documents' = Pop(documents, doc_id)
    /\ metadata' = Pop(metadata, doc_id)
    /\ active_id' = IF active_id = <<"str", doc_id>> THEN None ELSE active_id
    /\ regOut' = Outcome("remove", doc_id, "no", None)
    /\ regLast' = IF regLast.loaded /\ regLast.id = doc_id
                  THEN [regLast EXCEPT !.removed = TRUE] ELSE regLast
    /\ regOps' = regOps + 1
    /\ RegIdle

\* __len__()
len ==
    /\ regOps < MaxRegOps
    /\ regOut' = Outcome("len", "", "no", Cardinality(DOMAIN documents))
    /\ regOps' = regOps + 1
    /\ UNCHANGED <<documents, metadata, active_id, regLast>>
    /\ RegIdle

RegLoad == \E d \in DocIds, t \in DocTexts : load(d, "report.pdf", t)
RegLoadText == \E d \in DocIds, t \in DocTexts : load_text(d, t)
RegGet == \E d \in DocIds : get(d)
RegRemove == \E d \in DocIds : remove(d)

InitRegistry ==
    /\ InitIpc /\ max_sub_calls = MaxSubCalls
    /\ InitRetryVars /\ max_retries = MaxRetries /\ retry_base_delay = 1
    /\ InitQuery /\ maxIter = 0 /\ impl = "ClaudeRLM"
    /\ InitLib

NextRegistry ==
    \/ RegLoad
    \/ RegLoadText
    \/ RegGet
    \/ get_active
    \/ RegRemove
    \/ len

SpecRegistry == InitRegistry /\ [][NextRegistry]_vars

\* The query loop is one sequential thread and the worker is a running
\* process: whichever step is enabled is eventually taken.
SpecLive == Init /\ [][Next]_vars /\ WF_vars(Next)

\* ------------------------------------------------------------------ claims
Session == [buffers |-> buffers, findings |-> findings]
Returned == pc \in {"returned", "start", "done"}

\* C1: when the execution of block i of a batch terminates, the batch result
\* is terminated with a non-null final_answer and exactly i blocks of the
\* response were executed (none after block i).
C1_BatchStopsAtTermination ==
    termBlock # 0 =>
        /\ batchRes.terminated
        /\ batchRes.final_answer # None
        /\ execsOfResp = termBlock
        /\ Returned /\ result = build_result(batchRes.final_answer)

C1_Witness ==
    /\ termBlock = 1 /\ resp.nBlocks = 2 /\ pc = "returned"
    /\ batchRes.terminated

\* C2 (as claimed): in an execution whose code calls FINAL(x) no statement
\* runs after the call, and the execution returns terminated with
\* final_answer = str(x) and the session holding exactly the worker's state.
C2_FinalStopsExecution ==
    finalArg # None =>
        /\ ~ranAfterFinal
        /\ (wpc = "none" =>
               /\ lastRes.terminated
               /\ lastRes.final_answer = Str(finalArg)
               /\ prevMem # NoState
               /\ Session = JsonDump(prevMem))

\* C3: when no loop iteration terminates, the loop runs max_iterations times,
\* one forced call follows (max_iterations + 1 root-model calls), no code of
\* the forced response is executed and the answer is non-null.
C3_IterationLimit ==
    /\ result.via = "forced" =>
          /\ iteration = maxIter /\ Len(trajectory) = maxIter
          /\ rootCalls = maxIter + 1
          /\ result.answer # None
    /\ resp.forced => execsOfResp = 0 /\ wpc = "none" /\ Returned
    /\ (pc = "returned" /\ result.via \notin {"marker", "code"}) => resp.forced

C3_Witness ==
    /\ result.via = "forced" /\ maxIter = MaxIterBound
    /\ ~resp.marker /\ resp.nBlocks > 0 /\ pc = "returned"

\* C4: every query returns, after at most max_iterations + 1 root-model calls,
\* whatever the responses and the outcomes of the code executions are.
C4_QueryReturns ==
    /\ [](rootCalls <= maxIter + 1)
    /\ [](pc = "loop" => <>(pc = "returned"))

C4_Witness ==
    /\ pc = "returned" /\ rootCalls = maxIter + 1 /\ maxIter = MaxIterBound
    /\ qIdx = Len(Questions)

\* C5: a loop response that contains FINAL_ANSWER: ends the query with the
\* result parsed from it, and none of its code blocks is executed.
C5_TextMarkerFirst ==
    (resp.marker /\ ~resp.forced) =>
        /\ execsOfResp = 0 /\ wpc = "none" /\ ~ipcUp
        /\ Returned
        /\ result = parse_final_answer(resp, "marker")

C5_Witness ==
    /\ resp.marker /\ ~resp.forced /\ resp.nBlocks = MaxBlocks
    /\ pc = "returned" /\ iteration = 2

\* C6: the state the next execution of a query starts from is the session
\* state the previous one returned, and it holds what the previous worker had
\* in memory when it completed (as json gives it back).
C6_StatePersists ==
    [][(pc = "exec" /\ pc' = "wait") =>
          /\ prevReturned # NoState =>
                [buffers |-> wBuffers', findings |-> wFindings'] = prevReturned
          /\ prevMem # NoState =>
                [buffers |-> wBuffers', findings |-> wFindings'] = JsonDump(prevMem)]_vars

C6_Witness ==
    /\ pc = "wait" /\ wpc = "running" /\ wSteps = 0
    /\ iteration = 2 /\ prevReturned # NoState
    /\ wBuffers["k1"] # None /\ Len(wFindings) > 0

\* C7: a query starts with empty buffers, findings and trajectory, and the
\* state a code execution sees or the session holds during a query was
\* made by the code of that query's own question.
OwnValue(v) == v = None \/ v[2] = CurQ
OwnState(b, f) ==
    /\ \A k \in Keys : OwnValue(b[k])
    /\ \A i \in 1..Len(f) : OwnValue(f[i])

C7_FreshSession ==
    /\ (pc = "loop" /\ rootCalls = 0) =>
          buffers = EmptyBuffers /\ findings = <<>> /\ trajectory = <<>>
    /\ wpc # "none" => OwnState(wBuffers, wFindings)
    /\ pc \in {"loop", "exec", "wait", "returned"} => OwnState(buffers, findings)

C7_Witness ==
    /\ qIdx = 2 /\ pc = "wait" /\ wpc = "running"
    /\ wBuffers["k1"] # None /\ Len(wFindings) > 0

\* C8: whatever a client reads on its connection is the callback's result
\* (or error) for that client's own request.
C8_NoCrossTalk ==
    \A c \in Clients :
        got[c] # NoMsg =>
            got[c] \in {<<"result", Answer(req[c])>>, <<"result", BudgetError>>,
                       <<"error", ErrorOf(req[c])>>}

C8_Witness ==
    \E c, d \in Clients :
        /\ c # d /\ req[c] # req[d]
        /\ busyAtAccept[d]
        /\ got[c] = <<"result", Answer(req[c])>>
        /\ got[d] = <<"result", Answer(req[d])>>

\* C9: while a callback is in progress for one connection, every step of
\* serving another connection can be taken: accepting it, invoking the
\* callback for it, returning its response.
C9_HandlersIndependent ==
    \A c, d \in Clients :
        (c # d /\ hstate[c] = "in_callback" /\ srv = "serving") =>
            /\ (cstate[d] = "sent" /\ hstate[d] = "none") => ENABLED Accept(d)
            /\ hstate[d] = "started" => ENABLED HandlerInvoke(d)
            /\ hstate[d] = "checked" => ENABLED SubQueryCount(d)
            /\ hstate[d] = "in_callback" => ENABLED CallbackReturn(d)
            /\ (cstate[d] = "sent" /\ hstate[d] = "done") => ENABLED ClientRecv(d)

C9_Witness ==
    \E c, d \in Clients :
        /\ c # d /\ hstate[c] = "in_callback" /\ busyAtAccept[d]
        /\ cstate[d] = "received" /\ got[d] = <<"result", Answer(req[d])>>

\* C10 (as claimed): once stop() has returned no request is accepted, no
\* handler is still in the callback and no session counter changes any more.
C10_StopEndsHandlers ==
    srv = "stopped" =>
        /\ \A c \in Clients : hstate[c] # "in_callback"
        /\ ~lateUpdate

\* C11: the steps of one query follow one another: a root-model call is made
\* only while no worker exists and no execution is open, a worker is started
\* only when the previous one is gone, and an execution is left only once its
\* worker has exited or has been killed.
C11_StepsSequential ==
    [][/\ rootCalls' = rootCalls + 1 => (pc = "loop" /\ wpc = "none" /\ ~ipcUp)
       /\ (wpc' = "running" /\ wpc # "running") => (pc = "exec" /\ wpc = "none")
       /\ (pc = "wait" /\ pc' # "wait") => wpc \in {"exited", "crashed", "killed"}
       /\ (wpc' # "none") => pc' = "wait"]_vars

C11_Witness ==
    /\ pc = "wait" /\ wpc = "running" /\ wSteps > 0
    /\ iteration = 2 /\ execsOfResp = 2

\* C12 (as claimed): whatever the interleaving of the handler threads,
\* sub_call_count (one API call is made per increment) never exceeds
\* max_sub_calls.
C12_SubCallBudget == sub_call_count <= max_sub_calls

\* The outcomes of this Call are transient failures, possibly ended by a
\* success.
TransientOnly ==
    \A i \in 1..Len(outcomes) : outcomes[i] \in {"ok", "rate_limit", "api_transient"}
AllFailed == \A i \in 1..Len(outcomes) : outcomes[i] # "ok"

\* C13: with transient failures followed by a success, a Call whose first
\* success is at attempt k <= max_retries makes exactly k underlying calls and
\* returns that response; when the first max_retries attempts all fail it
\* makes exactly max_retries calls and raises the error of the last attempt.
C13_RetryCounts ==
    TransientOnly =>
        /\ apiCalls = Len(outcomes) /\ apiCalls <= max_retries
        /\ (Len(outcomes) > 0 /\ outcomes[Len(outcomes)] = "ok") =>
              /\ rpc = "returned"
              /\ retResult = <<"response", apiCalls>>
              /\ \A i \in 1..(Len(outcomes) - 1) : outcomes[i] # "ok"
        /\ rpc = "returned" => outcomes[Len(outcomes)] = "ok"
        /\ rpc = "raised" =>
              /\ AllFailed /\ apiCalls = max_retries
              /\ retResult = <<"error", outcomes[max_retries], max_retries>>
        /\ (AllFailed /\ Len(outcomes) = max_retries) => ENABLED RetryExhausted \/ rpc = "raised"

C13_Witness ==
    /\ rpc = "returned" /\ max_retries = 3 /\ apiCalls = 3
    /\ outcomes = <<"rate_limit", "rate_limit", "ok">>

\* C14 (as claimed): a Call whose underlying call fails with a non-transient
\* API error raises it after that one call, with no delay and no retry.
C14_FatalNotRetried ==
    \A i \in 1..Len(outcomes) :
        outcomes[i] = "api_fatal" =>
            /\ i = Len(outcomes) /\ rpc = "raised"
            /\ retResult = <<"error", "api_fatal", i>>
            /\ Len(delays) = i - 1

\* C15: a transient API error that is no rate limit is followed, on every
\* attempt before the last, by the backoff delay of a rate limit and a retry;
\* on attempt max_retries it is raised at once: that failure is followed by
\* no delay and no further call.
C15_ApiErrorBackoff ==
    \A i \in 1..Len(outcomes) :
        outcomes[i] = "api_transient" =>
            IF i < max_retries
               THEN /\ Len(delays) >= i /\ delays[i] = retry_base_delay * Pow2(i - 1)
                    /\ (rpc = "loop" /\ i = Len(outcomes)) => ENABLED RetryAttempt
                    /\ rpc # "raised" \/ i < Len(outcomes)
               ELSE /\ i = Len(outcomes) /\ apiCalls = max_retries
                    /\ rpc = "raised"
                    /\ retResult = <<"error", "api_transient", i>>
                    /\ Len(delays) = max_retries - 1

C15_Witness ==
    /\ max_retries = 3 /\ rpc = "raised"
    /\ outcomes = <<"api_transient", "api_transient", "api_transient">>
    /\ Len(delays) = 2

\* C16: the i-th delay of a Call (after the failure of 0-based attempt i - 1)
\* is retry_base_delay * 2^(i-1), one delay per failure slept on, and every
\* Call starts again from attempt 0.
C16_BackoffDelays ==
    /\ \A i \in 1..Len(delays) : delays[i] = retry_base_delay * Pow2(i - 1)
    /\ Len(delays) = attempt
    /\ (rpc = "loop" /\ outcomes = <<>>) => (attempt = 0 /\ delays = <<>>)

C16_Witness ==
    /\ callNo = 2 /\ retry_base_delay = 3
    /\ delays = <<3, 6, 12>>

\* C17: an execution whose code raises returns a result that is not
\* terminated, has no final answer and whose output has the STDERR-prefixed
\* error text; the query goes on (next block, or back to the loop), the text
\* stays in the batch output, and the batch output is the user message the
\* next root-model call is given.
C17_ErrorBecomesOutput ==
    [][/\ (pc = "wait" /\ wpc = "crashed" /\ pc' # "wait") =>
              /\ ~lastRes'.terminated /\ lastRes'.final_answer = None
              /\ "STDERR" \in lastRes'.output
              /\ pc' \in {"exec", "loop"}
              /\ "STDERR" \in outputs'
       /\ (pc = "wait" /\ pc' \in {"exec", "loop"}) => outputs \subseteq outputs'
       /\ (pc = "wait" /\ pc' = "loop" /\ outputs' # {}) =>
              prompt' = <<"code_output", outputs'>>
       /\ (pc = "loop" /\ rootCalls > 0 /\ rootCalls' = rootCalls + 1) =>
              prompt = Feedback(batchRes)]_vars

C17_Witness ==
    /\ pc = "loop" /\ iteration < maxIter /\ resp.nBlocks = 2
    /\ prompt[1] = "code_output" /\ "STDERR" \in prompt[2]
    /\ lastRes.ran /\ "STDERR" \notin lastRes.output

\* C18: an execution that runs into its timeout has its worker killed and
\* returns a result that is not terminated, has no final answer and whose
\* output is the timeout message; the query goes on and the message is fed
\* back with the batch output.
C18_TimeoutBecomesOutput ==
    [][(pc = "wait" /\ wpc = "killed" /\ pc' # "wait") =>
          /\ lastRes' = [output |-> {"timeout"}, terminated |-> FALSE,
                         final_answer |-> None, ran |-> TRUE]
          /\ pc' \in {"exec", "loop"}
          /\ "timeout" \in outputs'
          /\ pc' = "loop" => prompt' = <<"code_output", outputs'>>]_vars

C18_Witness ==
    /\ pc = "loop" /\ iteration < maxIter
    /\ prompt = <<"code_output", {"timeout"}>>
    /\ lastRes.output = {"timeout"}

\* C19: when the worker ends without writing its state back (uncaught
\* exception, kill on timeout), the session's buffers and findings after the
\* execution are those before it.
C19_FailedRunKeepsState ==
    [][(pc = "wait" /\ wpc \in {"crashed", "killed"} /\ pc' # "wait") =>
          (buffers' = buffers /\ findings' = findings)]_vars

C19_Witness ==
    /\ dirtyLost /\ pc \in {"exec", "loop"}
    /\ buffers = EmptyBuffers /\ findings = <<>>

\* C20 (as claimed): whenever no execution is in progress, no temp file of an
\* execution exists and no IPC server of an execution is serving.
C20_CleanupAlways == pc # "wait" => (~ipcUp /\ ~tmpFiles)

\* C21: all code blocks of one batch run in one worker process, so a variable
\* assigned by an earlier block of the batch is bound in the workers of the
\* later blocks of that batch.
C21_BatchSharesWorker ==
    (wpc = "running" /\ batchLocal) => wLocal # Unset

\* C22: an execution that called FINAL_VAR(name) ends terminated, and its
\* final_answer is the string form of the value the name is bound to, or the
\* not-found message when the name is not bound.
C22_FinalVarTerminates ==
    (lastRes.ran /\ fvExpected # None) =>
        /\ lastRes.terminated
        /\ lastRes.final_answer = fvExpected

\* C23: an execution in which neither FINAL nor FINAL_VAR was called returns
\* terminated = false and final_answer = null, whether it ended normally, in
\* an error or in a timeout; so does a batch none of whose blocks terminated,
\* and a block terminates a batch only by such a call.
C23_NoFinalNotTerminated ==
    /\ (wpc # "none" /\ finalArg = None /\ fvExpected = None) => termFile = NoTerm
    /\ (lastRes.ran /\ finalArg = None /\ fvExpected = None) =>
           (~lastRes.terminated /\ lastRes.final_answer = None)
    /\ (batchRes.ran /\ termBlock = 0) =>
           (~batchRes.terminated /\ batchRes.final_answer = None)
    /\ termBlock # 0 => (finalArg # None \/ fvExpected # None)

C23_Witness ==
    /\ lastRes.ran /\ finalArg = None /\ fvExpected = None
    /\ "STDERR" \in lastRes.output /\ ~lastRes.terminated
    /\ batchRes.ran /\ termBlock = 0 /\ resp.nBlocks = 2

\* C24: an iteration whose response has no marker and either no code block
\* or blocks with an empty combined output appends the assistant response and
\* the fixed "No code was executed" message, raises nothing, returns nothing
\* and goes back to the loop, the iteration having been counted.
C24_NoCodeFeedback ==
    [][/\ (pc = "loop" /\ iteration' = iteration + 1 /\ ~resp'.marker
              /\ resp'.nBlocks = 0) =>
              /\ pc' = "loop" /\ prompt' = <<"no_code">>
              /\ msgCount' = msgCount + 2
              /\ result' = NoResult /\ error' = None
       /\ (pc = "wait" /\ pc' \notin {"wait", "exec"} /\ ~lastRes'.terminated
              /\ outputs' = {}) =>
              /\ pc' = "loop" /\ prompt' = <<"no_code">>
              /\ msgCount' = msgCount + 2
              /\ iteration' = iteration /\ iteration = rootCalls
              /\ result' = NoResult /\ error' = None]_vars

C24_Witness ==
    /\ pc = "loop" /\ prompt = <<"no_code">> /\ iteration = 1 /\ maxIter = 2
    /\ batchRes.ran /\ resp.nBlocks = 2 /\ msgCount = 3

\* C25: an output of at most MAX_OUTPUT_CHARS characters is fed back unchanged
\* and without notice; a longer one is cut to exactly its first
\* MAX_OUTPUT_CHARS characters, followed by a notice that states its length.
C25_Truncation ==
    tFed # NotFed =>
        IF Len(tOut) <= MAX_OUTPUT_CHARS
           THEN tFed.text = tOut /\ tFed.notice = None
           ELSE /\ Len(tFed.text) = MAX_OUTPUT_CHARS
                /\ \A i \in 1..MAX_OUTPUT_CHARS : tFed.text[i] = tOut[i]
                /\ tFed.notice # None /\ tFed.notice[2] = Len(tOut)

C25_Witness ==
    /\ tFed # NotFed /\ Len(tOut) = MAX_OUTPUT_CHARS + 1
    /\ tFed.text # tOut /\ tFed.notice # None

\* C26: when the callback raises an error m while serving a request, the
\* handler replies {error: m} on that connection, the worker-side sub_query
\* returns the string "ERROR: m" instead of raising, and the server goes on
\* accepting the connections that come later.
C26_CallbackErrorReplied ==
    /\ \A c \in Clients :
          wire[c][1] = "error" =>
              /\ hstate[c] = "done"
              /\ wire[c] = <<"error", ErrorOf(req[c])>>
    /\ \A c \in Clients :
          got[c][1] = "error" =>
              /\ cstate[c] = "received"
              /\ ret[c] = <<"ERROR: ", ErrorOf(req[c])>>
    /\ \A c, d \in Clients :
          (wire[c][1] = "error" /\ srv = "serving" /\ cstate[d] = "sent"
              /\ hstate[d] = "none") => ENABLED Accept(d)

C26_Witness ==
    \E c, d \in Clients :
        /\ c # d /\ srv = "serving"
        /\ ret[c] = <<"ERROR: ", ErrorOf(req[c])>>
        /\ ~busyAtAccept[d] /\ ret[d] = Answer(req[d])

\* C27: when a root-model call raises, the error leaves the query and no
\* result is returned, the document is as it was, and the query that follows
\* on the same object starts from empty buffers, findings and trajectory and
\* never sees a value of the failed one.
C27_FailedQueryLeavesNoState ==
    /\ pc = "raised" =>
           (result = NoResult /\ error # None /\ context = Document)
    /\ (failedQuery # NoFailure /\ pc = "loop" /\ rootCalls = 0) =>
           /\ buffers = EmptyBuffers /\ findings = <<>> /\ trajectory = <<>>
           /\ error = None /\ context = Document
    /\ (failedQuery # NoFailure /\ pc \in {"loop", "exec", "wait", "returned"}) =>
           /\ OwnState(buffers, findings)
           /\ Len(trajectory) = iteration

C27_Witness ==
    /\ failedQuery = <<"root_call", "dirty">> /\ pc = "loop" /\ rootCalls = 0
    /\ buffers = EmptyBuffers /\ findings = <<>> /\ trajectory = <<>>

\* The middlewares that have pre_query, in registration order, and those that
\* have post_query, in the reverse of it.
HavingPre  == SelectSeq([k \in 1..Len(chain) |-> k], LAMBDA m : chain[m].pre)
HavingPost == SelectSeq([k \in 1..Len(chain) |-> Len(chain) + 1 - k],
                        LAMBDA m : chain[m].post)

\* C29: run_pre calls pre_query of the middlewares that have it in
\* registration order, run_post calls post_query of those that have it in the
\* reverse order; each call receives what the previous call returned (the
\* first one what the chain was given), the chain returns what the last call
\* returned, and a middleware without the method is passed over.
C29_MiddlewareOrder ==
    /\ mwpc \in {"ran_pre", "post", "ran_post"} =>
          /\ Len(preLog) = Len(HavingPre)
          /\ \A k \in 1..Len(preLog) :
                /\ preLog[k][1] = HavingPre[k]
                /\ preLog[k][2] = <<"question">> \o SubSeq(HavingPre, 1, k - 1)
    /\ mwpc = "ran_pre" => mwVal = <<"question">> \o HavingPre
    /\ mwpc = "ran_post" =>
          /\ Len(postLog) = Len(HavingPost)
          /\ \A k \in 1..Len(postLog) :
                /\ postLog[k][1] = HavingPost[k]
                /\ postLog[k][2] = <<"result">> \o SubSeq(HavingPost, 1, k - 1)
          /\ mwVal = <<"result">> \o HavingPost

C29_Witness ==
    /\ mwpc = "ran_post" /\ Len(chain) = 3
    /\ chain[1].pre /\ chain[1].post /\ ~chain[2].pre /\ chain[2].post
    /\ chain[3].pre /\ chain[3].post
    /\ preLog = << <<1, <<"question">>>>, <<3, <<"question", 1>>>> >>
    /\ Len(postLog) = 3 /\ postLog[1][1] = 3 /\ postLog[3][1] = 1

\* C30: in every run of QueryOrchestrator the pre chain has run exactly once
\* before any root-model call, the post chain has not run while the loop or
\* an execution is going on, and on each of the three return paths the post
\* chain has run exactly once and the value returned is what it produced.
C30_MiddlewareOncePerRun ==
    /\ pc \in {"loop", "exec", "wait"} => (preRuns = 1 /\ postRuns = 0)
    /\ rootCalls > 0 => preRuns = 1
    /\ pc = "returned" =>
          /\ preRuns = 1 /\ postRuns = 1
          /\ result.via \in {"marker", "code", "forced"}
          /\ result.post

C30_Witness ==
    /\ pc = "returned" /\ qIdx = 2 /\ result.via = "code" /\ result.post
    /\ preRuns = 1 /\ postRuns = 1 /\ rootCalls = 2

StopCalls == {"stop", "exit", "exit_exc"}
LastCall == IF lcLog = <<>> THEN "none" ELSE lcLog[Len(lcLog)]

\* C31: after any sequence of start / stop calls on an IPCServer (with-blocks
\* and their exit through an exception included) port is positive exactly
\* when the server created by the latest start is serving, it is 0 before the
\* first start and after every stop, and a stop that finds no server returns
\* normally and leaves port, server and the serving threads as they were.
C31_Lifecycle ==
    /\ port > 0 <=> (lastStarted # None /\ lastStarted \in serving)
    /\ lastStarted = None => port = 0
    /\ LastCall \in StopCalls => (port = 0 /\ lcOut = None)
    /\ (LastCall \in StopCalls /\ lcPrev[2] = None) => LcState = lcPrev

C31_Witness ==
    /\ lcLog = <<"enter", "start", "exit_exc", "stop">>
    /\ serving = {<<"server", 1>>} /\ port = 0
    /\ lcPrev = <<0, None, {<<"server", 1>>}>>

\* The text after the first FINAL_ANSWER: up to the next field label or the
\* end of the text, stripped; empty when there is no marker.
Following(r) ==
    LET i == FirstIdx(r, {"FINAL_ANSWER:"})
        cut == FirstIdx(SubSeq(r, i + 1, Len(r)), FieldLabels)
    IN  IF i = 0 THEN <<>>
        ELSE Strip(SubSeq(r, i + 1, IF cut = 0 THEN Len(r) ELSE i + cut - 1))

\* C32: of every response text parse_final_answer returns a dict in which
\* each of evidence, confidence and verification whose label is absent has
\* its default, and answer is not null: it is the text after FINAL_ANSWER: up
\* to the next field label or the end, or the whole response when that text
\* is empty.
C32_ParseFinalAnswer ==
    parsed # NotParsed =>
        /\ (\A i \in 1..Len(response) : response[i] # "SOURCE_EVIDENCE:")
              => parsed.evidence = None
        /\ (\A i \in 1..Len(response) : response[i] # "CONFIDENCE:")
              => parsed.confidence = Unknown
        /\ (\A i \in 1..Len(response) : response[i] # "VERIFICATION_METHOD:")
              => parsed.verification = None
        /\ parsed.answer # None
        /\ parsed.answer = IF Following(response) # <<>>
                           THEN Following(response) ELSE response

\* C33: given the same max_iterations, save_trajectory setting and script of
\* model responses and sandbox outcomes, arun makes the same middleware
\* calls, root-model calls (with the same message histories) and sandbox
\* executions as run, in the same order, and returns the same result: at
\* every moment the calls made by one are a prefix of the calls made by the
\* other, and once both have returned their calls and results are equal.
C33_ArunAsRun ==
    (eqRun.at # "idle" /\ eqArun.at # "idle") =>
        /\ LET n == IF Len(eqRun.trace) <= Len(eqArun.trace)
                    THEN Len(eqRun.trace) ELSE Len(eqArun.trace)
           IN  SubSeq(eqRun.trace, 1, n) = SubSeq(eqArun.trace, 1, n)
        /\ (eqRun.at = "done" /\ eqArun.at = "done") =>
              /\ eqRun.trace = eqArun.trace
              /\ eqRun.result = eqArun.result
              /\ eqRun.messages = eqArun.messages

C33_Witness ==
    /\ eqRun.at = "done" /\ eqArun.at = "done"
    /\ eqIn.max_iterations = 2 /\ eqIn.save_trajectory
    /\ eqIn.script[1] = "output" /\ eqIn.script[2] = "no_code"
    /\ eqArun.result.answer = <<"parse_final_answer", 3>>
    /\ Len(eqArun.trace) = 6 /\ Len(eqArun.result.trajectory) = 2

\* C34: on every accepted connection the handler calls sub_query_fn at most
\* once and writes at most one response frame, whose JSON body has exactly
\* one key, "result" or "error"; when fewer than 4 bytes of the length prefix
\* arrive it calls nothing and writes nothing.
C34_OneCallOneFrame ==
    \A c \in Clients :
        /\ invoked[c] <= 1
        /\ Len(frames[c]) <= 1
        /\ \A i \in 1..Len(frames[c]) :
              DOMAIN frames[c][i] \in {{"result"}, {"error"}}
        /\ hstate[c] = "none" => (invoked[c] = 0 /\ frames[c] = <<>>)
        /\ req[c] \in ShortRequests => (invoked[c] = 0 /\ frames[c] = <<>>)

C34_Witness ==
    /\ hstate[1] = "done" /\ req[1] = "3 bytes" /\ frames[1] = <<>>
    /\ hstate[2] = "done" /\ invoked[2] = 1
    /\ Len(frames[2]) = 1 /\ DOMAIN frames[2][1] = {"error"}

\* The outputs of blocks 1..n, those that are not empty, one after another.
RECURSIVE OutputsUpTo(_)
OutputsUpTo(n) ==
    IF n = 0 THEN <<>>
    ELSE OutputsUpTo(n - 1) \o BlockOutput(n, matches[n])

LlmCalls(trace) == SelectSeq(trace, LAMBDA ev : ev[1] = "llm")

\* The input / output tokens reported by the calls of this query, summed.
RECURSIVE SumIn(_)
SumIn(calls) ==
    IF calls = <<>> THEN 0 ELSE InTok(Head(calls)[2]) + SumIn(Tail(calls))

RECURSIVE SumOut(_)
SumOut(script) ==
    IF script = <<>> THEN 0 ELSE OutTok(Head(script)) + SumOut(Tail(script))

LoopReturned == lpRun.at = "done"

\* Usage is counted by QueryOrchestrator always, and by ClaudeRLM when
\* config.track_costs is set.
Counted == lpCfg.impl = "QueryOrchestrator" \/ lpCfg.track_costs

\* C36 (as stated): the root_input_tokens and root_output_tokens of a
\* returned result are the sums of the token counts reported by all
\* root-model calls of that query, the terminating and the forced call
\* included, and by no call of another query.
C36_RootTokensAsStated ==
    LoopReturned =>
        /\ lpRun.result.root_input_tokens = SumIn(LlmCalls(lpRun.trace))
        /\ lpRun.result.root_output_tokens = SumOut(lpScript)

\* C36: where usage is counted (QueryOrchestrator; ClaudeRLM with
\* config.track_costs, the default) the root_input_tokens and
\* root_output_tokens of a returned result are the sums of the token counts
\* reported by all root-model calls of that query, the terminating and the
\* forced call included, and by no call of another query; ClaudeRLM with
\* track_costs off reports 0 for both.
C36_RootTokens ==
    LoopReturned =>
        /\ Len(LlmCalls(lpRun.trace)) = Len(lpScript)
        /\ lpRun.result.root_input_tokens =
              IF Counted THEN SumIn(LlmCalls(lpRun.trace)) ELSE 0
        /\ lpRun.result.root_output_tokens =
              IF Counted THEN SumOut(lpScript) ELSE 0

C36_Witness ==
    /\ LoopReturned /\ lpQ = 2 /\ lpCfg.impl = "ClaudeRLM" /\ lpCfg.track_costs
    /\ lpCfg.max_iterations = 1 /\ lpScript = <<"output", "no_code">>
    /\ lpRun.result.root_input_tokens = 5
    /\ lpRun.result.root_output_tokens = 3

\* The loop iterations a query has performed: its root-model calls but for
\* the one made after the loop, the forced final call.
Iterations(trace) ==
    IF Len(LlmCalls(trace)) <= lpCfg.max_iterations
    THEN Len(LlmCalls(trace)) ELSE lpCfg.max_iterations

IsPrefix(a, b) == Len(a) <= Len(b) /\ SubSeq(b, 1, Len(a)) = a

\* The step a query takes next on a given response, with nothing in its
\* trajectory.
StepOf(s, kind) ==
    IF lpCfg.impl = "ClaudeRLM"
    THEN query_step(s, LoopIn(Append(lpScript, kind)))
    ELSE run_step(s, LoopIn(Append(lpScript, kind)))

\* C37: during a query the trajectory only grows at its end; it holds one
\* record per loop iteration performed, in order, with the indexes 1, 2, ...
\* and the response of that iteration, and the forced final call adds none;
\* the result carries it when trajectory saving is enabled and null when it
\* is disabled; and what the loop does next (where it goes, what it sends,
\* which calls it makes) is the same with the trajectory emptied.
C37_Trajectory ==
    /\ lpRun.at # "idle" =>
          /\ Len(lpRun.trajectory) = Iterations(lpRun.trace)
          /\ \A i \in 1..Len(lpRun.trajectory) : lpRun.trajectory[i] = <<i, i>>
    /\ LoopReturned =>
          lpRun.result.trajectory =
              IF lpCfg.save_trajectory THEN lpRun.trajectory ELSE None
    /\ lpRun.at = "loop" =>
          \A kind \in ScriptKinds :
             LET a == StepOf(lpRun, kind)
                 b == StepOf([lpRun EXCEPT !.trajectory = <<>>], kind)
             IN  /\ IsPrefix(lpRun.trajectory, a.trajectory)
                 /\ a.at = b.at /\ a.messages = b.messages /\ a.trace = b.trace
                 /\ a.iteration = b.iteration
                 /\ (a.at = "done" => a.result.answer = b.result.answer)

C37_Witness ==
    /\ LoopReturned /\ lpCfg.impl = "ClaudeRLM" /\ lpCfg.save_trajectory
    /\ lpCfg.max_iterations = 2 /\ lpScript = <<"no_code", "output", "marker">>
    /\ lpRun.result.trajectory = << <<1, 1>>, <<2, 2>> >>
    /\ lpQ = 2

\* C38: the k-th root-model call inside the loop is sent exactly 2k-1
\* messages, with user and assistant roles alternating from a user message to
\* a user message, and the forced final call is sent exactly
\* 2*max_iterations+2 messages.
C38_MessageHistory ==
    lpRun.at # "idle" =>
        /\ Len(LlmCalls(lpRun.trace)) <= lpCfg.max_iterations + 1
        /\ \A k \in 1..Len(LlmCalls(lpRun.trace)) :
              LET msgs == LlmCalls(lpRun.trace)[k][2]
              IN  IF k > lpCfg.max_iterations
                  THEN Len(msgs) = 2 * lpCfg.max_iterations + 2
                  ELSE /\ Len(msgs) = 2 * k - 1
                       /\ \A i \in 1..Len(msgs) :
                             msgs[i][1] = IF i % 2 = 1 THEN "user"
                                          ELSE "assistant"
                       /\ k > 1 =>
                             /\ msgs[2 * k - 2] = <<"assistant", "response", k - 1>>
                             /\ msgs[2 * k - 1][2] \in {"code_output", "no_code"}

C38_Witness ==
    /\ LoopReturned /\ lpCfg.impl = "QueryOrchestrator"
    /\ lpCfg.max_iterations = 2 /\ lpScript = <<"output", "no_output", "no_code">>
    /\ Len(LlmCalls(lpRun.trace)) = 3
    /\ Len(LlmCalls(lpRun.trace)[2][2]) = 3
    /\ Len(LlmCalls(lpRun.trace)[3][2]) = 6
    /\ LlmCalls(lpRun.trace)[3][2][5] = <<"user", "no_code", 2>>

\* C39: a rate-limit failure is slept on after every attempt, the last
\* permitted one included: once attempt number max_retries has failed with a
\* rate limit the delay retry_base_delay * 2^(max_retries-1) has been
\* performed and only then is the error raised, so a Call whose attempts all
\* fail with rate limits performs max_retries delays and max_retries API
\* calls.
C39_RateLimitLastDelay ==
    /\ \A i \in 1..Len(outcomes) :
          outcomes[i] = "rate_limit" =>
              /\ Len(delays) >= i
              /\ delays[i] = retry_base_delay * Pow2(i - 1)
    /\ (/\ Len(outcomes) = max_retries
        /\ outcomes[max_retries] = "rate_limit") =>
          /\ Len(delays) = max_retries
          /\ apiCalls = max_retries
          /\ rpc \in {"loop", "raised"}
          /\ rpc = "loop" => (ENABLED RetryExhausted /\ ~ENABLED RetryAttempt)
          /\ rpc = "raised" => retResult = <<"error", "rate_limit", max_retries>>

C39_Witness ==
    /\ max_retries = 3 /\ retry_base_delay = 1 /\ rpc = "raised"
    /\ outcomes = <<"rate_limit", "rate_limit", "rate_limit">>
    /\ delays[3] = 4 /\ retResult = <<"error", "rate_limit", 3>>

\* What get_active() is to return: the text of the most recent load if that
\* id has not been removed since, None otherwise.
MostRecentText ==
    IF regLast.loaded /\ ~regLast.removed THEN regLast.text ELSE None

\* The registry's bookkeeping but for get_active(): the ids with text are the
\* ids with metadata, len() is their number, and get() of an absent id raises
\* KeyError and leaves the fields as they were.
RegistryConsistent ==
    /\ DOMAIN documents = DOMAIN metadata
    /\ regOut.op = "len" => regOut.value = Cardinality(DOMAIN metadata)
    /\ (regOut.op = "get" /\ regOut.arg \notin DOMAIN regOut.before[1]) =>
          /\ regOut.raised = "KeyError"
          /\ <<documents, metadata, active_id>> = regOut.before

\* C40: after any sequence of load / load_text / remove the ids with text
\* are the ids with metadata and len() is their number; get_active() returns
\* the text of the most recently loaded document if it has not been removed
\* since and None otherwise; get() of an absent id raises KeyError and
\* changes nothing.
C40_Registry ==
    /\ RegistryConsistent
    /\ regOut.op = "get_active" => regOut.value = MostRecentText

\* The same with get_active() looked at only when the most recently loaded
\* id is not the empty string.
RegistryWithNamedIds ==
    /\ RegistryConsistent
    /\ (regOut.op = "get_active" /\ regLast.id # "") =>
          regOut.value = MostRecentText

\* C28: the result a query returns reports as many sub-calls, and as much
\* sub-model token usage, as the sub-query callbacks of that query made.
C28_SubCallsReported ==
    pc = "returned" =>
        /\ result.sub_calls_used = callbacksRun
        /\ result.sub_tokens = callbacksRun
====
